---- MODULE Spec2Model ----
(***************************************************************************)
(* GeoFieldTracker: the storage contract (IStorage) and its two in-process *)
(* backends, FileStorage (whole-collection snapshots) and MemStorage       *)
(* (volatile maps), together with the routes and the startup seed routine  *)
(* that attach users to teams.                                             *)
(*                                                                         *)
(* Conventions.  A JavaScript Map is a sequence of records in insertion    *)
(* order, keyed by the record's _id.  `undefined` is NoId for an id field, *)
(* NoDate for a Date field and "undefined" for a string field.  An         *)
(* operation of a backend is an operator from the store (and the clock and *)
(* the random draws) to an outcome [db, threw, ret]; ret is <<>> for       *)
(* `undefined` or a throw and <<v>> for the returned value v.  Opaque      *)
(* fields that every operation copies unread (name, email, description,    *)
(* priority, dueDate, coordinates, remarks) are left out of the records.   *)
(***************************************************************************)
EXTENDS Integers, Sequences, FiniteSets, TLC

VARIABLES
    backend,   \* the active backend: "File", "Mem" or "Mongo"
    db,        \* the seven collections (and MemStorage's counters)
    now,       \* the clock read by new Date() / Date.now(), in ticks
    last,      \* the last operation called, its arguments and its outcome
    prev,      \* the store as the last operation found it
    nops,      \* storage calls, or requests served, so far
    phase,     \* "contract": the storage is called directly; the server goes
               \* from "boot" to "seeding" to "serving" (or to "external",
               \* "exited", or "emergency" and "stalled"); "crashed": the
               \* process died during a file write
    scope,     \* the group of collections this behaviour's calls address
    disk,      \* the files of FileStorage's data directory
    held,      \* the first entity a call returned, as its caller reads it
    pending    \* the call of updateTaskStatus that is suspended at an await

vars == <<backend, db, prev, now, last, nops, phase, scope, disk, held, pending>>

----------------------------------------------------------------------------
(* Bounds of the model *)

MaxOps == 3          \* storage calls in one behaviour
MaxRequests == 3     \* HTTP requests served in one behaviour
MaxFaults == 1       \* failed file writes in one behaviour

\* The create calls addInitialData can make: the supervisor, four teams and
\* the demo field user.
SeedCreates == 6

----------------------------------------------------------------------------
(* Identifiers *)

\* Date.now()/1000 at tick 0, and the clock's resolution: several ticks
\* fall in the same second, so two ids can share their time prefix.
BaseSeconds == 1700000000
TicksPerSecond == 3

\* Math.floor(Math.random() * n) is some value of 0..n-1.
MachineRange == 16777215
ProcessRange == 65535
CounterRange == 16777215

\* The outcomes of the three Math.random() calls of one generateObjectId
\* that the model draws: all lowest, all highest.
RandomDraws ==
    { <<0, 0, 0>>,
      <<MachineRange - 1, ProcessRange - 1, CounterRange - 1>> }

\* An id is kept in compact form and rendered to its string on demand:
\*   k = "oid":  t seconds, m machine, p process, c counter (FileStorage)
\*   k = a MemStorage prefix ("user", "task", ...): c is the counter
\*   k = "lit":  the c-th literal of Literals
\*   k = "none": undefined
Id(k, t, m, p, c) == [k |-> k, t |-> t, m |-> m, p |-> p, c |-> c]
NoId == Id("none", 0, 0, 0, 0)

HexDigit == <<"0", "1", "2", "3", "4", "5", "6", "7",
              "8", "9", "a", "b", "c", "d", "e", "f">>
HexChars == { HexDigit[i] : i \in 1..16 } \cup {"A", "B", "C", "D", "E", "F"}
DecDigit == <<"0", "1", "2", "3", "4", "5", "6", "7", "8", "9">>

\* Number.prototype.toString(radix) of a non-negative integer.
RECURSIVE toStringRadix(_, _)
toStringRadix(n, radix) ==
    LET d == IF radix = 16 THEN HexDigit[(n % 16) + 1] ELSE DecDigit[(n % 10) + 1]
    IN  IF n < radix THEN <<d>> ELSE Append(toStringRadix(n \div radix, radix), d)

\* String.prototype.padStart(width, ch)
RECURSIVE padStart(_, _, _)
padStart(s, width, ch) ==
    IF Len(s) >= width THEN s ELSE padStart(<<ch>> \o s, width, ch)

PrefixChars(k) ==
    CASE k = "user"     -> <<"u", "s", "e", "r">>
      [] k = "team"     -> <<"t", "e", "a", "m">>
      [] k = "task"     -> <<"t", "a", "s", "k">>
      [] k = "feature"  -> <<"f", "e", "a", "t", "u", "r", "e">>
      [] k = "boundary" -> <<"b", "o", "u", "n", "d", "a", "r", "y">>
      [] k = "update"   -> <<"u", "p", "d", "a", "t", "e">>
      [] k = "evidence" -> <<"e", "v", "i", "d", "e", "n", "c", "e">>

\* Literal id strings a caller may pass: 1 is "not-an-id".
Literals == << <<"n", "o", "t", "-", "a", "n", "-", "i", "d">> >>

\* The string of an id, as a sequence of characters.
IdString(id) ==
    CASE id.k = "oid"  ->
            padStart(toStringRadix(id.t, 16), 8, "0")
              \o padStart(toStringRadix(id.m, 16), 6, "0")
              \o padStart(toStringRadix(id.p, 16), 4, "0")
              \o padStart(toStringRadix(id.c, 16), 6, "0")
      [] id.k = "lit"  -> Literals[id.c]
      [] id.k = "none" -> <<>>
      [] OTHER         ->
            PrefixChars(id.k) \o <<"_">> \o padStart(toStringRadix(id.c, 10), 6, "0")

\* FileStorage.generateObjectId at clock t with the random draws g.
generateObjectId(t, g) ==
    Id("oid", BaseSeconds + (t \div TicksPerSecond), g[1], g[2], g[3])

\* MemStorage.generateId(prefix, counter)
generateId(prefix, counter) == Id(prefix, 0, 0, 0, counter)

\* Ids a caller may pass that name nothing: a well-formed id no backend has
\* generated, and a malformed literal.
AbsentId == Id("oid", BaseSeconds - 1, 1, 1, 1)
MalformedId == Id("lit", 0, 0, 0, 1)

\* The 24-hex-character format of @shared/schema isValidObjectId.
IsHex24(s) == Len(s) = 24 /\ \A i \in 1..24 : s[i] \in HexChars

\* The ids the bounded model can meet, and those of them whose string is
\* well formed: computed once, so that isValidObjectId renders no string
\* again for an id of this set.
MemPrefixes == {"user", "team", "task", "feature", "boundary", "update", "evidence"}
KnownIds ==
    {NoId, AbsentId, MalformedId}
    \cup { generateObjectId(t, g) : t \in 0..(MaxOps + SeedCreates), g \in RandomDraws }
    \cup { generateId(k, c) : k \in MemPrefixes, c \in 1..(MaxOps + SeedCreates) }
KnownValidIds == { id \in KnownIds : IsHex24(IdString(id)) }

isValidObjectId(id) ==
    IF id \in KnownIds THEN id \in KnownValidIds ELSE IsHex24(IdString(id))

----------------------------------------------------------------------------
(* JavaScript Map, in insertion order *)

Keys(m) == { m[i]._id : i \in 1..Len(m) }
Has(m, id) == \E i \in 1..Len(m) : m[i]._id = id
IndexOf(m, id) == CHOOSE i \in 1..Len(m) : m[i]._id = id
MapGet(m, id) == m[IndexOf(m, id)]
\* Map.prototype.set: an existing key keeps its place, a new key goes last.
MapSet(m, id, v) ==
    IF Has(m, id) THEN [m EXCEPT ![IndexOf(m, id)] = v] ELSE Append(m, v)
\* Map.prototype.delete
MapDelete(m, id) ==
    IF Has(m, id)
    THEN LET k == IndexOf(m, id)
         IN  [i \in 1..(Len(m) - 1) |-> IF i < k THEN m[i] ELSE m[i + 1]]
    ELSE m
\* Map.prototype.get as an optional value
Lookup(m, id) == IF Has(m, id) THEN <<MapGet(m, id)>> ELSE <<>>

NoDate == 0 - 1
Undefined == "undefined"

Ok(d, v) == [db |-> d, threw |-> FALSE, ret |-> <<v>>]
\* A returned boolean
Boolean(b) == [value |-> b]
OkNothing(d) == [db |-> d, threw |-> FALSE, ret |-> <<>>]
Throw(d) == [db |-> d, threw |-> TRUE, ret |-> <<>>]

EmptyDb ==
    [ users |-> <<>>, teams |-> <<>>, tasks |-> <<>>, features |-> <<>>,
      boundaries |-> <<>>, taskUpdates |-> <<>>, taskEvidence |-> <<>>,
      userCurrentId |-> 1, teamCurrentId |-> 1, taskCurrentId |-> 1,
      featureCurrentId |-> 1, boundaryCurrentId |-> 1,
      taskUpdateCurrentId |-> 1, taskEvidenceCurrentId |-> 1 ]

----------------------------------------------------------------------------
(* FileStorage: src/unnamed/part_000.  Every operation's synchronous body  *)
(* runs within one clock tick t; g is the outcome of its Math.random()     *)
(* calls.                                                                  *)

\* `x ? x.toString() : undefined` of an optional id
OptionalIdToString(x) == IF x # NoId THEN x ELSE NoId
\* `x || dflt` of an optional string
OrDefault(x, dflt) == IF x # Undefined THEN x ELSE dflt

FileStorage_getUser(d, id) ==
    IF ~isValidObjectId(id) THEN OkNothing(d)
    ELSE [db |-> d, threw |-> FALSE, ret |-> Lookup(d.users, id)]

\* Array.prototype.find: the first of the values that pass the test
First(hits) == IF hits = <<>> THEN <<>> ELSE <<Head(hits)>>

FileStorage_getUserByUsername(d, username) ==
    LET Same(u) == u.username = username
    IN  First(SelectSeq(d.users, Same))

FileStorage_getAllTeams(d) == d.teams

FileStorage_createUser(d, t, g, in) ==
    LET id == generateObjectId(t, g)
        user == [ _id |-> id, username |-> in.username, password |-> in.password,
                  role |-> in.role, teamId |-> OptionalIdToString(in.teamId),
                  lastActive |-> NoDate, createdAt |-> t, updatedAt |-> t ]
    IN  Ok([d EXCEPT !.users = MapSet(@, id, user)], user)

FileStorage_updateUserLastActive(d, t, id) ==
    IF ~isValidObjectId(id) THEN Throw(d)
    ELSE IF ~Has(d.users, id) THEN Throw(d)
    ELSE LET user == [MapGet(d.users, id) EXCEPT !.lastActive = t, !.updatedAt = t]
         IN  Ok([d EXCEPT !.users = MapSet(@, id, user)], user)

FileStorage_createTeam(d, t, g, in) ==
    LET id == generateObjectId(t, g)
        team == [ _id |-> id, name |-> in.name,
                  status |-> OrDefault(in.status, "Pending"),
                  createdBy |-> in.createdBy, approvedBy |-> NoId,
                  createdAt |-> t, updatedAt |-> t ]
    IN  Ok([d EXCEPT !.teams = MapSet(@, id, team)], team)

FileStorage_getTeam(d, id) ==
    IF ~isValidObjectId(id) THEN OkNothing(d)
    ELSE [db |-> d, threw |-> FALSE, ret |-> Lookup(d.teams, id)]

FileStorage_updateTeamStatus(d, t, id, status, approvedBy) ==
    IF ~isValidObjectId(id) THEN Throw(d)
    ELSE IF approvedBy # NoId /\ ~isValidObjectId(approvedBy) THEN Throw(d)
    ELSE IF ~Has(d.teams, id) THEN Throw(d)
    ELSE LET old == MapGet(d.teams, id)
             team == [old EXCEPT !.status = status, !.updatedAt = t,
                                 !.approvedBy = IF approvedBy # NoId
                                                THEN approvedBy ELSE @]
         IN  Ok([d EXCEPT !.teams = MapSet(@, id, team)], team)

\* A variant of assignUserToTeam that stores the team id on the user before
\* it validates that id.
FileStorage_assignUserToTeam_SetThenCheck(d, t, userId, teamId) ==
    IF ~isValidObjectId(userId) THEN Throw(d)
    ELSE IF ~Has(d.users, userId) THEN Throw(d)
    ELSE LET user == [MapGet(d.users, userId) EXCEPT !.teamId = teamId,
                                                     !.updatedAt = t]
             d1 == [d EXCEPT !.users = MapSet(@, userId, user)]
         IN  IF ~isValidObjectId(teamId) THEN Throw(d1) ELSE Ok(d1, user)

FileStorage_assignUserToTeam(d, t, userId, teamId) ==
    IF ~isValidObjectId(userId) \/ ~isValidObjectId(teamId) THEN Throw(d)
    ELSE IF ~Has(d.users, userId) THEN Throw(d)
    ELSE LET user == [MapGet(d.users, userId) EXCEPT !.teamId = teamId,
                                                     !.updatedAt = t]
         IN  Ok([d EXCEPT !.users = MapSet(@, userId, user)], user)

FileStorage_createTask(d, t, g, in) ==
    LET id == generateObjectId(t, g)
        task == [ _id |-> id, title |-> in.title,
                  status |-> OrDefault(in.status, "Unassigned"),
                  createdBy |-> OptionalIdToString(in.createdBy),
                  assignedTo |-> OptionalIdToString(in.assignedTo),
                  createdAt |-> t, updatedAt |-> t ]
    IN  Ok([d EXCEPT !.tasks = MapSet(@, id, task)], task)

FileStorage_getTask(d, id) ==
    IF ~isValidObjectId(id) THEN OkNothing(d)
    ELSE [db |-> d, threw |-> FALSE, ret |-> Lookup(d.tasks, id)]

\* A variant of createTaskUpdate that keeps one record per task, replacing
\* the task's earlier one.
FileStorage_createTaskUpdate_Latest(d, t, g, in) ==
    IF ~isValidObjectId(in.taskId) \/ ~isValidObjectId(in.userId) THEN Throw(d)
    ELSE LET id == generateObjectId(t, g)
             update == [ _id |-> id, taskId |-> in.taskId, userId |-> in.userId,
                         comment |-> in.comment, oldStatus |-> in.oldStatus,
                         newStatus |-> in.newStatus, createdAt |-> t ]
             OfOther(u) == u.taskId # in.taskId
         IN  Ok([d EXCEPT !.taskUpdates =
                     MapSet(SelectSeq(@, OfOther), id, update)], update)

FileStorage_createTaskUpdate(d, t, g, in) ==
    IF ~isValidObjectId(in.taskId) \/ ~isValidObjectId(in.userId) THEN Throw(d)
    ELSE LET id == generateObjectId(t, g)
             update == [ _id |-> id, taskId |-> in.taskId, userId |-> in.userId,
                         comment |-> in.comment, oldStatus |-> in.oldStatus,
                         newStatus |-> in.newStatus, createdAt |-> t ]
         IN  Ok([d EXCEPT !.taskUpdates = MapSet(@, id, update)], update)

\* Array.prototype.sort((a, b) => b.createdAt - a.createdAt): newest first,
\* equal dates in their given order (the sort is stable).
RECURSIVE InsertNewestFirst(_, _)
InsertNewestFirst(sorted, x) ==
    IF sorted = <<>> THEN <<x>>
    ELSE IF Head(sorted).createdAt >= x.createdAt
         THEN <<Head(sorted)>> \o InsertNewestFirst(Tail(sorted), x)
         ELSE <<x>> \o sorted
RECURSIVE SortNewestFirst(_)
SortNewestFirst(seq) ==
    IF seq = <<>> THEN <<>>
    ELSE InsertNewestFirst(SortNewestFirst(SubSeq(seq, 1, Len(seq) - 1)),
                           seq[Len(seq)])

FileStorage_getTaskUpdates(d, taskId) ==
    IF ~isValidObjectId(taskId) THEN <<>>
    ELSE LET OfTask(u) == u.taskId = taskId
         IN  SortNewestFirst(SelectSeq(d.taskUpdates, OfTask))

FileStorage_updateTaskStatus(d, t, g, id, status, userId) ==
    IF ~isValidObjectId(id) \/ ~isValidObjectId(userId) THEN Throw(d)
    ELSE IF ~Has(d.tasks, id) THEN Throw(d)
    ELSE LET old == MapGet(d.tasks, id)
             oldStatus == old.status
             task == [old EXCEPT !.status = status, !.updatedAt = t]
             d1 == [d EXCEPT !.tasks = MapSet(@, id, task)]
             r == FileStorage_createTaskUpdate(d1, t, g,
                      [ taskId |-> id, userId |-> userId, oldStatus |-> oldStatus,
                        newStatus |-> status,
                        comment |-> "Status updated to " \o status ])
         IN  IF r.threw THEN Throw(r.db) ELSE Ok(r.db, task)

\* A variant of assignTask that refuses a task already "Completed".
FileStorage_assignTask_OpenOnly(d, t, id, assignedTo) ==
    IF ~isValidObjectId(id) \/ ~isValidObjectId(assignedTo) THEN Throw(d)
    ELSE IF ~Has(d.tasks, id) THEN Throw(d)
    ELSE IF MapGet(d.tasks, id).status = "Completed" THEN Throw(d)
    ELSE LET task == [MapGet(d.tasks, id) EXCEPT !.assignedTo = assignedTo,
                                                 !.status = "Assigned",
                                                 !.updatedAt = t]
         IN  Ok([d EXCEPT !.tasks = MapSet(@, id, task)], task)

FileStorage_assignTask(d, t, id, assignedTo) ==
    IF ~isValidObjectId(id) \/ ~isValidObjectId(assignedTo) THEN Throw(d)
    ELSE IF ~Has(d.tasks, id) THEN Throw(d)
    ELSE LET task == [MapGet(d.tasks, id) EXCEPT !.assignedTo = assignedTo,
                                                 !.status = "Assigned",
                                                 !.updatedAt = t]
         IN  Ok([d EXCEPT !.tasks = MapSet(@, id, task)], task)

FileStorage_createFeature(d, t, g, in) ==
    LET id == generateObjectId(t, g)
        \* the geometry is rebuilt for the three known types, dropped otherwise
        geometry == IF in.geometry \in {"Point", "LineString", "Polygon"}
                    THEN in.geometry ELSE Undefined
        feature == [ _id |-> id, name |-> in.name, feaStatus |-> in.feaStatus,
                     maintenance |-> OrDefault(in.maintenance, "None"),
                     geometry |-> geometry,
                     createdBy |-> OptionalIdToString(in.createdBy),
                     createdAt |-> t, updatedAt |-> t, lastUpdated |-> t ]
    IN  Ok([d EXCEPT !.features = MapSet(@, id, feature)], feature)

FileStorage_getFeature(d, id) ==
    IF ~isValidObjectId(id) THEN OkNothing(d)
    ELSE [db |-> d, threw |-> FALSE, ret |-> Lookup(d.features, id)]

FileStorage_deleteFeature(d, id) ==
    IF ~isValidObjectId(id) THEN Ok(d, Boolean(FALSE))
    ELSE Ok([d EXCEPT !.features = MapDelete(@, id)], Boolean(Has(d.features, id)))

FileStorage_getAllFeatures(d) == d.features

\* {...existingFeature, ...featureUpdate, _id, geometry, feaStatus,
\* lastUpdated, updatedAt}: every key the update carries replaces the stored
\* one, then the listed keys are set.
FileStorage_updateFeature(d, t, id, featureUpdate) ==
    IF ~isValidObjectId(id) THEN Throw(d)
    ELSE IF ~Has(d.features, id) THEN Throw(d)
    ELSE LET existingFeature == MapGet(d.features, id)
             geometry == IF featureUpdate.geometry \in {"Point", "LineString", "Polygon"}
                         THEN featureUpdate.geometry
                         ELSE existingFeature.geometry
             updatedFeature ==
                 [existingFeature EXCEPT
                      !.name = OrDefault(featureUpdate.name, @),
                      !.createdAt = IF featureUpdate.createdAt # NoDate
                                    THEN featureUpdate.createdAt ELSE @,
                      !.geometry = geometry,
                      !.feaStatus = OrDefault(featureUpdate.feaStatus, @),
                      !.lastUpdated = t,
                      !.updatedAt = t]
         IN  Ok([d EXCEPT !.features = MapSet(@, id, updatedFeature)], updatedFeature)

FileStorage_createBoundary(d, t, g, in) ==
    LET id == generateObjectId(t, g)
        boundary == [ _id |-> id, name |-> in.name,
                      status |-> OrDefault(in.status, "New"),
                      assignedTo |-> OptionalIdToString(in.assignedTo),
                      createdAt |-> t, updatedAt |-> t ]
    IN  Ok([d EXCEPT !.boundaries = MapSet(@, id, boundary)], boundary)

FileStorage_getBoundary(d, id) ==
    IF ~isValidObjectId(id) THEN OkNothing(d)
    ELSE [db |-> d, threw |-> FALSE, ret |-> Lookup(d.boundaries, id)]

FileStorage_updateBoundaryStatus(d, t, id, status) ==
    IF ~isValidObjectId(id) THEN Throw(d)
    ELSE IF ~Has(d.boundaries, id) THEN Throw(d)
    ELSE LET boundary == [MapGet(d.boundaries, id) EXCEPT !.status = status,
                                                          !.updatedAt = t]
         IN  Ok([d EXCEPT !.boundaries = MapSet(@, id, boundary)], boundary)

FileStorage_assignBoundary(d, t, id, userId) ==
    IF ~isValidObjectId(id) \/ ~isValidObjectId(userId) THEN Throw(d)
    ELSE IF ~Has(d.boundaries, id) THEN Throw(d)
    ELSE LET boundary == [MapGet(d.boundaries, id) EXCEPT !.assignedTo = userId,
                                                          !.updatedAt = t]
         IN  Ok([d EXCEPT !.boundaries = MapSet(@, id, boundary)], boundary)

FileStorage_addTaskEvidence(d, t, g, in) ==
    IF ~isValidObjectId(in.taskId) \/ ~isValidObjectId(in.userId) THEN Throw(d)
    ELSE LET id == generateObjectId(t, g)
             evidence == [ _id |-> id, taskId |-> in.taskId, userId |-> in.userId,
                           imageUrl |-> in.imageUrl, createdAt |-> t ]
         IN  Ok([d EXCEPT !.taskEvidence = MapSet(@, id, evidence)], evidence)

----------------------------------------------------------------------------
(* MemStorage: src/server/routes.ts.  A record is the insert object spread *)
(* after _id, so a field the caller left out stays undefined.              *)

MemStorage_getUser(d, id) == [db |-> d, threw |-> FALSE, ret |-> Lookup(d.users, id)]

\* String.prototype.toLowerCase on the user names in use
toLowerCase(str) ==
    CASE str = "Alice" -> "alice"
      [] str = "Bob" -> "bob"
      [] OTHER -> str

MemStorage_getUserByUsername(d, username) ==
    LET Same(u) == toLowerCase(u.username) = toLowerCase(username)
    IN  First(SelectSeq(d.users, Same))

MemStorage_getAllTeams(d) == d.teams

MemStorage_createUser(d, t, in) ==
    LET id == generateId("user", d.userCurrentId)
        user == [ _id |-> id, username |-> in.username, password |-> in.password,
                  role |-> in.role, teamId |-> in.teamId,
                  lastActive |-> NoDate, createdAt |-> t, updatedAt |-> t ]
    IN  Ok([d EXCEPT !.userCurrentId = @ + 1, !.users = MapSet(@, id, user)], user)

MemStorage_updateUserLastActive(d, t, id) ==
    IF ~Has(d.users, id) THEN Throw(d)
    ELSE LET user == [MapGet(d.users, id) EXCEPT !.lastActive = t, !.updatedAt = t]
         IN  Ok([d EXCEPT !.users = MapSet(@, id, user)], user)

MemStorage_createTeam(d, t, in) ==
    LET id == generateId("team", d.teamCurrentId)
        team == [ _id |-> id, name |-> in.name, status |-> in.status,
                  createdBy |-> in.createdBy, approvedBy |-> NoId,
                  createdAt |-> t, updatedAt |-> t ]
    IN  Ok([d EXCEPT !.teamCurrentId = @ + 1, !.teams = MapSet(@, id, team)], team)

MemStorage_getTeam(d, id) == [db |-> d, threw |-> FALSE, ret |-> Lookup(d.teams, id)]

MemStorage_updateTeamStatus(d, t, id, status, approvedBy) ==
    IF MemStorage_getTeam(d, id).ret = <<>> THEN Throw(d)
    ELSE LET old == MapGet(d.teams, id)
             team == [old EXCEPT !.status = status, !.updatedAt = t,
                                 !.approvedBy = IF approvedBy # NoId
                                                THEN approvedBy ELSE @]
         IN  Ok([d EXCEPT !.teams = MapSet(@, id, team)], team)

MemStorage_assignUserToTeam(d, t, userId, teamId) ==
    IF MemStorage_getUser(d, userId).ret = <<>> THEN Throw(d)
    ELSE IF MemStorage_getTeam(d, teamId).ret = <<>> THEN Throw(d)
    ELSE LET user == [MapGet(d.users, userId) EXCEPT !.teamId = teamId,
                                                     !.updatedAt = t]
         IN  Ok([d EXCEPT !.users = MapSet(@, userId, user)], user)

MemStorage_createTask(d, t, in) ==
    LET id == generateId("task", d.taskCurrentId)
        task == [ _id |-> id, title |-> in.title, status |-> in.status,
                  createdBy |-> in.createdBy, assignedTo |-> in.assignedTo,
                  createdAt |-> t, updatedAt |-> t ]
    IN  Ok([d EXCEPT !.taskCurrentId = @ + 1, !.tasks = MapSet(@, id, task)], task)

\* A variant of getTask that validates the id as the file backend does.
MemStorage_getTask_Validating(d, id) ==
    IF ~isValidObjectId(id) THEN OkNothing(d)
    ELSE [db |-> d, threw |-> FALSE, ret |-> Lookup(d.tasks, id)]

MemStorage_getTask(d, id) == [db |-> d, threw |-> FALSE, ret |-> Lookup(d.tasks, id)]

MemStorage_updateTaskStatus(d, t, id, status, userId) ==
    IF MemStorage_getTask(d, id).ret = <<>> THEN Throw(d)
    ELSE LET task == [MapGet(d.tasks, id) EXCEPT !.status = status,
                                                 !.updatedAt = t]
         IN  Ok([d EXCEPT !.tasks = MapSet(@, id, task)], task)

MemStorage_assignTask(d, t, id, assignedTo) ==
    IF MemStorage_getTask(d, id).ret = <<>> THEN Throw(d)
    ELSE LET task == [MapGet(d.tasks, id) EXCEPT !.assignedTo = assignedTo,
                                                 !.status = "Assigned",
                                                 !.updatedAt = t]
         IN  Ok([d EXCEPT !.tasks = MapSet(@, id, task)], task)

MemStorage_createFeature(d, t, in) ==
    LET id == generateId("feature", d.featureCurrentId)
        feature == [ _id |-> id, name |-> in.name, feaStatus |-> in.feaStatus,
                     maintenance |-> in.maintenance, geometry |-> in.geometry,
                     createdBy |-> in.createdBy,
                     createdAt |-> t, updatedAt |-> t, lastUpdated |-> t ]
    IN  Ok([d EXCEPT !.featureCurrentId = @ + 1,
                     !.features = MapSet(@, id, feature)], feature)

MemStorage_getFeature(d, id) ==
    [db |-> d, threw |-> FALSE, ret |-> Lookup(d.features, id)]

MemStorage_deleteFeature(d, id) ==
    Ok([d EXCEPT !.features = MapDelete(@, id)], Boolean(Has(d.features, id)))

MemStorage_getAllFeatures(d) == d.features

\* The new object is built key by key: featureUpdate.x ?? feature.x for the
\* data keys, the stored _id and createdAt, new updatedAt and lastUpdated.
\* MemStorage.updateFeature after `await this.getFeature(id)`: feature is what
\* getFeature read when it was called, <<>> for undefined.
MemStorage_updateFeature_AfterAwait(d, t, id, read, featureUpdate) ==
    IF read = <<>> THEN Throw(d)
    ELSE LET feature == read[1]
             updatedFeature ==
                 [feature EXCEPT
                      !.name = OrDefault(featureUpdate.name, @),
                      !.feaStatus = OrDefault(featureUpdate.feaStatus, @),
                      !.geometry = OrDefault(featureUpdate.geometry, @),
                      !.updatedAt = t,
                      !.lastUpdated = t]
         IN  Ok([d EXCEPT !.features = MapSet(@, id, updatedFeature)], updatedFeature)
\* The call run without another call between its read and its write
MemStorage_updateFeature(d, t, id, featureUpdate) ==
    MemStorage_updateFeature_AfterAwait(d, t, id, MemStorage_getFeature(d, id).ret,
                                        featureUpdate)

MemStorage_createBoundary(d, t, in) ==
    LET id == generateId("boundary", d.boundaryCurrentId)
        boundary == [ _id |-> id, name |-> in.name, status |-> in.status,
                      assignedTo |-> in.assignedTo,
                      createdAt |-> t, updatedAt |-> t ]
    IN  Ok([d EXCEPT !.boundaryCurrentId = @ + 1,
                     !.boundaries = MapSet(@, id, boundary)], boundary)

MemStorage_getBoundary(d, id) ==
    [db |-> d, threw |-> FALSE, ret |-> Lookup(d.boundaries, id)]

MemStorage_updateBoundaryStatus(d, t, id, status) ==
    IF MemStorage_getBoundary(d, id).ret = <<>> THEN Throw(d)
    ELSE LET boundary == [MapGet(d.boundaries, id) EXCEPT !.status = status,
                                                          !.updatedAt = t]
         IN  Ok([d EXCEPT !.boundaries = MapSet(@, id, boundary)], boundary)

MemStorage_assignBoundary(d, t, id, userId) ==
    IF MemStorage_getBoundary(d, id).ret = <<>> THEN Throw(d)
    ELSE LET boundary == [MapGet(d.boundaries, id) EXCEPT !.assignedTo = userId,
                                                          !.updatedAt = t]
         IN  Ok([d EXCEPT !.boundaries = MapSet(@, id, boundary)], boundary)

MemStorage_createTaskUpdate(d, t, in) ==
    LET id == generateId("update", d.taskUpdateCurrentId)
        update == [ _id |-> id, taskId |-> in.taskId, userId |-> in.userId,
                    comment |-> in.comment, oldStatus |-> in.oldStatus,
                    newStatus |-> in.newStatus, createdAt |-> t ]
    IN  Ok([d EXCEPT !.taskUpdateCurrentId = @ + 1,
                     !.taskUpdates = MapSet(@, id, update)], update)

MemStorage_getTaskUpdates(d, taskId) ==
    LET OfTask(u) == u.taskId = taskId
    IN  SelectSeq(d.taskUpdates, OfTask)

MemStorage_addTaskEvidence(d, t, in) ==
    LET id == generateId("evidence", d.taskEvidenceCurrentId)
        evidence == [ _id |-> id, taskId |-> in.taskId, userId |-> in.userId,
                      imageUrl |-> in.imageUrl, createdAt |-> t ]
    IN  Ok([d EXCEPT !.taskEvidenceCurrentId = @ + 1,
                     !.taskEvidence = MapSet(@, id, evidence)], evidence)

----------------------------------------------------------------------------
(* The storage singleton (routes.ts `storage`): a call goes to the active  *)
(* backend b.                                                              *)

Storage_getUser(b, d, id) ==
    IF b = "File" THEN FileStorage_getUser(d, id) ELSE MemStorage_getUser(d, id)
Storage_getTeam(b, d, id) ==
    IF b = "File" THEN FileStorage_getTeam(d, id) ELSE MemStorage_getTeam(d, id)
Storage_getTask(b, d, id) ==
    IF b = "File" THEN FileStorage_getTask(d, id) ELSE MemStorage_getTask(d, id)
Storage_getFeature(b, d, id) ==
    IF b = "File" THEN FileStorage_getFeature(d, id) ELSE MemStorage_getFeature(d, id)
Storage_getBoundary(b, d, id) ==
    IF b = "File" THEN FileStorage_getBoundary(d, id)
    ELSE MemStorage_getBoundary(d, id)
Storage_getAllFeatures(b, d) ==
    IF b = "File" THEN FileStorage_getAllFeatures(d) ELSE MemStorage_getAllFeatures(d)
Storage_getUserByUsername(b, d, username) ==
    IF b = "File" THEN FileStorage_getUserByUsername(d, username)
    ELSE MemStorage_getUserByUsername(d, username)
Storage_getAllTeams(b, d) ==
    IF b = "File" THEN FileStorage_getAllTeams(d) ELSE MemStorage_getAllTeams(d)
Storage_getTaskUpdates(b, d, taskId) ==
    IF b = "File" THEN FileStorage_getTaskUpdates(d, taskId)
    ELSE MemStorage_getTaskUpdates(d, taskId)
Storage_createUser(b, d, t, g, in) ==
    IF b = "File" THEN FileStorage_createUser(d, t, g, in)
    ELSE MemStorage_createUser(d, t, in)
Storage_updateUserLastActive(b, d, t, id) ==
    IF b = "File" THEN FileStorage_updateUserLastActive(d, t, id)
    ELSE MemStorage_updateUserLastActive(d, t, id)
Storage_createTeam(b, d, t, g, in) ==
    IF b = "File" THEN FileStorage_createTeam(d, t, g, in)
    ELSE MemStorage_createTeam(d, t, in)
Storage_updateTeamStatus(b, d, t, id, status, approvedBy) ==
    IF b = "File" THEN FileStorage_updateTeamStatus(d, t, id, status, approvedBy)
    ELSE MemStorage_updateTeamStatus(d, t, id, status, approvedBy)
Storage_assignUserToTeam(b, d, t, userId, teamId) ==
    IF b = "File" THEN FileStorage_assignUserToTeam(d, t, userId, teamId)
    ELSE MemStorage_assignUserToTeam(d, t, userId, teamId)
Storage_createTask(b, d, t, g, in) ==
    IF b = "File" THEN FileStorage_createTask(d, t, g, in)
    ELSE MemStorage_createTask(d, t, in)
Storage_updateTaskStatus(b, d, t, g, id, status, userId) ==
    IF b = "File" THEN FileStorage_updateTaskStatus(d, t, g, id, status, userId)
    ELSE MemStorage_updateTaskStatus(d, t, id, status, userId)
Storage_assignTask(b, d, t, id, assignedTo) ==
    IF b = "File" THEN FileStorage_assignTask(d, t, id, assignedTo)
    ELSE MemStorage_assignTask(d, t, id, assignedTo)
Storage_createFeature(b, d, t, g, in) ==
    IF b = "File" THEN FileStorage_createFeature(d, t, g, in)
    ELSE MemStorage_createFeature(d, t, in)
Storage_updateFeature(b, d, t, id, featureUpdate) ==
    IF b = "File" THEN FileStorage_updateFeature(d, t, id, featureUpdate)
    ELSE MemStorage_updateFeature(d, t, id, featureUpdate)
Storage_deleteFeature(b, d, id) ==
    IF b = "File" THEN FileStorage_deleteFeature(d, id)
    ELSE MemStorage_deleteFeature(d, id)
Storage_createBoundary(b, d, t, g, in) ==
    IF b = "File" THEN FileStorage_createBoundary(d, t, g, in)
    ELSE MemStorage_createBoundary(d, t, in)
Storage_updateBoundaryStatus(b, d, t, id, status) ==
    IF b = "File" THEN FileStorage_updateBoundaryStatus(d, t, id, status)
    ELSE MemStorage_updateBoundaryStatus(d, t, id, status)
Storage_assignBoundary(b, d, t, id, userId) ==
    IF b = "File" THEN FileStorage_assignBoundary(d, t, id, userId)
    ELSE MemStorage_assignBoundary(d, t, id, userId)
Storage_createTaskUpdate(b, d, t, g, in) ==
    IF b = "File" THEN FileStorage_createTaskUpdate(d, t, g, in)
    ELSE MemStorage_createTaskUpdate(d, t, in)
Storage_addTaskEvidence(b, d, t, g, in) ==
    IF b = "File" THEN FileStorage_addTaskEvidence(d, t, g, in)
    ELSE MemStorage_addTaskEvidence(d, t, in)

----------------------------------------------------------------------------
(* Arguments the callers pass *)

UserIdArgs(d) == Keys(d.users) \cup {AbsentId, MalformedId}
TeamIdArgs(d) == Keys(d.teams) \cup {AbsentId, MalformedId}
TaskIdArgs(d) == Keys(d.tasks) \cup {AbsentId, MalformedId}
FeatureIdArgs(d) == Keys(d.features) \cup {AbsentId, MalformedId}
BoundaryIdArgs(d) == Keys(d.boundaries) \cup {AbsentId, MalformedId}

TaskStatuses ==
    { "Unassigned", "Assigned", "In Progress", "In-Complete", "Submit-Review",
      "Review_inprogress", "Review_Accepted", "Review_Reject", "Completed" }
StatusArgs == {"Submit-Review", "Completed", "Archived"}
TeamStatuses == {"Pending", "Approved", "Rejected"}

UserInputs(d) ==
    { [username |-> "alice", password |-> "secret", role |-> "Supervisor",
       teamId |-> NoId] }
    \cup { [username |-> "bob", password |-> "secret", role |-> "Field",
            teamId |-> tm] : tm \in {NoId, AbsentId} \cup Keys(d.teams) }
TeamInputs ==
    { [name |-> "Alpha", status |-> st, createdBy |-> AbsentId]
        : st \in {Undefined, "Approved"} }
TaskInputs ==
    { [title |-> "survey", status |-> st, createdBy |-> NoId, assignedTo |-> NoId]
        : st \in {Undefined, "Completed"} }
FeatureInputs ==
    { [name |-> "tower", feaStatus |-> "New", maintenance |-> Undefined,
       geometry |-> "Point", createdBy |-> NoId] }
\* A creation date a client puts into an update: one far after every clock
\* reading of the model
ClientDate == 1000
\* The Partial<InsertFeature> objects passed to updateFeature: a request
\* body is passed as it came, so it can carry keys of the stored document.
\* An absent key is undefined (no date, no id).
FeatureUpdates ==
    { [name |-> "mast", feaStatus |-> Undefined, geometry |-> Undefined,
       createdAt |-> NoDate, _id |-> NoId],
      [name |-> Undefined, feaStatus |-> "InProgress", geometry |-> "Circle",
       createdAt |-> NoDate, _id |-> NoId],
      [name |-> Undefined, feaStatus |-> Undefined, geometry |-> Undefined,
       createdAt |-> ClientDate, _id |-> AbsentId] }
BoundaryInputs ==
    { [name |-> "zone", status |-> Undefined, assignedTo |-> NoId] }
TaskUpdateInputs(d) ==
    { [taskId |-> tk, userId |-> u, comment |-> "note",
       oldStatus |-> Undefined, newStatus |-> Undefined]
        : tk \in TaskIdArgs(d), u \in UserIdArgs(d) }
TaskEvidenceInputs(d) ==
    { [taskId |-> tk, userId |-> u, imageUrl |-> "/uploads/1.png"]
        : tk \in TaskIdArgs(d), u \in UserIdArgs(d) }

-----------------------------------------------------------------------------
(* The data directory of FileStorage *)

\* The collections, each kept in the file <name>.json
Files ==
    {"users", "teams", "tasks", "features", "boundaries", "taskUpdates",
     "taskEvidence"}
DateFields == {"createdAt", "updatedAt", "lastUpdated", "lastActive"}
IdFields ==
    {"_id", "teamId", "createdBy", "assignedTo", "approvedBy", "userId", "taskId"}
\* typeof v === "string": the value is a string that JSON.parse left where a
\* Date had been written. A string has no getTime.
IsIsoString(v) == Head(ToString(v)) = "["
\* The value v of field f is JavaScript's undefined.
IsUndefined(f, v) ==
    IF f \in DateFields THEN ~IsIsoString(v) /\ v = NoDate
    ELSE IF f \in IdFields THEN v = NoId
    ELSE v = Undefined
\* Date.prototype.toJSON: the date as an ISO-8601 string
toISOString(t) == [iso |-> t]
\* JSON.stringify of a record: fields that are undefined are left out,
\* dates become strings and strings stay what they are.
stringify(e) ==
    [ f \in { g \in DOMAIN e : ~IsUndefined(g, e[g]) } |->
          IF f \in DateFields /\ ~IsIsoString(e[f]) THEN toISOString(e[f])
          ELSE e[f] ]
\* JSON.stringify of Array.from(map.values())
stringifyAll(m) == [ i \in 1..Len(m) |-> stringify(m[i]) ]

AbsentFile == [state |-> "absent", records |-> <<>>]
PartialFile == [state |-> "partial", records |-> <<>>]
CompleteFile(records) == [state |-> "complete", records |-> records]
\* The data directory before the first save; faulty tells whether writes can
\* fail and the process can crash in it.
EmptyDisk(faulty) ==
    [files |-> [c \in Files |-> AbsentFile], faulty |-> faulty, faults |-> 0]
\* What a call of fs.writeFileSync can do: write the file, throw and leave
\* the file as it was, throw after part of the text was written, or not
\* return because the process dies during the write.
Outcomes(dk) ==
    IF ~dk.faulty THEN {"written"}
    ELSE IF dk.faults < MaxFaults THEN {"written", "kept", "torn", "crashed"}
    ELSE {"written", "crashed"}
writeFileSync(dk, c, records, o) ==
    CASE o = "written" -> [dk EXCEPT !.files[c] = CompleteFile(records)]
      [] o = "kept" -> [dk EXCEPT !.faults = @ + 1]
      [] o = "torn" -> [dk EXCEPT !.files[c] = PartialFile, !.faults = @ + 1]
      [] o = "crashed" -> [dk EXCEPT !.files[c] = PartialFile]

\* The saves of one call: the disk, the files written, the files whose
\* write threw, and whether the process died.
NoSave(dk) == [disk |-> dk, wrote |-> {}, failed |-> {}, crashed |-> FALSE]
\* saveUsers, saveTeams, ...: the collection c of d is written to its file
\* with outcome o; an exception of the write is caught and logged.
save(run, c, d, o) ==
    [ disk |-> writeFileSync(run.disk, c, stringifyAll(d[c]), o),
      wrote |-> IF o = "written" THEN run.wrote \cup {c} ELSE run.wrote,
      failed |-> IF o \in {"kept", "torn"} THEN run.failed \cup {c} ELSE run.failed,
      crashed |-> o = "crashed" ]
\* The ways the saves of a call, in their order, can go
RECURSIVE Saved(_, _, _)
Saved(run, d, saves) ==
    IF saves = <<>> \/ run.crashed THEN {run}
    ELSE UNION { Saved(save(run, Head(saves), d, o), d, Tail(saves))
                     : o \in Outcomes(run.disk) }

\* A variant of FileStorage_saves in which a status change saves the task
\* updates only.
FileStorage_saves_UpdatesOnly(op, a1, threw) ==
    IF threw THEN <<>>
    ELSE CASE op \in {"createUser", "assignUserToTeam"} -> <<"users">>
           [] op \in {"createTeam", "updateTeamStatus"} -> <<"teams">>
           [] op \in {"createTask", "assignTask"} -> <<"tasks">>
           [] op = "updateTaskStatus" -> <<"taskUpdates">>
           [] op = "createTaskUpdate" -> <<"taskUpdates">>
           [] op = "addTaskEvidence" -> <<"taskEvidence">>
           [] op \in {"createFeature", "updateFeature"} -> <<"features">>
           [] op = "deleteFeature" ->
                  IF isValidObjectId(a1) THEN <<"features">> ELSE <<>>
           [] op \in {"createBoundary", "updateBoundaryStatus", "assignBoundary"}
                  -> <<"boundaries">>
           [] OTHER -> <<>>

\* The save calls of FileStorage's operation op with first argument a1, in
\* their order: every throw of an operation precedes its saves.
FileStorage_saves(op, a1, threw) ==
    IF threw THEN <<>>
    ELSE CASE op \in {"createUser", "assignUserToTeam"} -> <<"users">>
           [] op \in {"createTeam", "updateTeamStatus"} -> <<"teams">>
           [] op \in {"createTask", "assignTask"} -> <<"tasks">>
           [] op = "updateTaskStatus" -> <<"tasks", "taskUpdates">>
           [] op = "createTaskUpdate" -> <<"taskUpdates">>
           [] op = "addTaskEvidence" -> <<"taskEvidence">>
           [] op \in {"createFeature", "updateFeature"} -> <<"features">>
           [] op = "deleteFeature" ->
                  IF isValidObjectId(a1) THEN <<"features">> ELSE <<>>
           [] op \in {"createBoundary", "updateBoundaryStatus", "assignBoundary"}
                  -> <<"boundaries">>
           [] OTHER -> <<>>

\* The collections in which d1 differs from d0
Modified(d0, d1) == { c \in Files : d1[c] # d0[c] }
\* The files after the storage calls of a request handler or of the seed
\* routine that took the collections from d0 to d1: each of these calls
\* changes the collection it saves, and no write fails.
Persisted(b, dk, d0, d1) ==
    IF b # "File" THEN dk
    ELSE [dk EXCEPT !.files = [ c \in Files |->
             IF c \in Modified(d0, d1) THEN CompleteFile(stringifyAll(d1[c]))
             ELSE @[c] ]]

----------------------------------------------------------------------------
(* The storage contract called directly *)

NoCall ==
    [op |-> "none", a1 |-> NoId, a2 |-> NoId, s |-> Undefined,
     threw |-> FALSE, ret |-> <<>>, code |-> 0,
     wrote |-> {}, failed |-> {}, crashed |-> FALSE, ids |-> <<>>]

\* No call is suspended.
NoPending ==
    [active |-> FALSE, id |-> NoId, userId |-> NoId, s |-> Undefined]
\* No entity has been returned yet.
NoHeld == [coll |-> "none", orig |-> <<>>, cur |-> <<>>, live |-> FALSE]
\* The collection whose stored object operation op returns: every get,
\* create, update and assign returns the object that is in the map.
Returns(op) ==
    CASE op \in {"getUser", "createUser", "assignUserToTeam"} -> "users"
      [] op \in {"getTeam", "createTeam", "updateTeamStatus"} -> "teams"
      [] op \in {"getTask", "createTask", "updateTaskStatus", "assignTask"}
             -> "tasks"
      [] op \in {"getFeature", "createFeature", "updateFeature"} -> "features"
      [] op \in {"getBoundary", "createBoundary", "updateBoundaryStatus",
                 "assignBoundary"} -> "boundaries"
      [] op = "createTaskUpdate" -> "taskUpdates"
      [] op = "addTaskEvidence" -> "taskEvidence"
      [] OTHER -> "none"
\* What the holder h of a returned object reads after a call that left the
\* collections as d1. The object read is the object
\* stored, which update and assign operations change in place, until it is
\* deleted from the map or a create sets a new object (with that call's
\* createdAt) under its id.
Deref(h, d1) ==
    IF h.coll = "none" \/ ~h.live THEN h
    ELSE IF ~Has(d1[h.coll], h.orig[1]._id) THEN [h EXCEPT !.live = FALSE]
    ELSE IF MapGet(d1[h.coll], h.orig[1]._id).createdAt # h.orig[1].createdAt
    THEN [h EXCEPT !.live = FALSE]
    ELSE [h EXCEPT !.cur = <<MapGet(d1[h.coll], h.orig[1]._id)>>]
\* updateFeature sets a new object under the id: who holds the object that
\* was stored before reads that object as it was.
Released(h, op, a1, r) ==
    IF op = "updateFeature" /\ ~r.threw /\ h.coll = "features" /\ h.live
       /\ h.orig[1]._id = a1
    THEN [h EXCEPT !.live = FALSE]
    ELSE h
\* The caller of the first call that returns an entity keeps what it got.
Hold(h, op, r) ==
    IF h.coll = "none" /\ ~r.threw /\ r.ret # <<>> /\ Returns(op) # "none"
    THEN [coll |-> Returns(op), orig |-> r.ret, cur |-> r.ret, live |-> TRUE]
    ELSE h

\* The outcome r of operation op with id arguments a1, a2 and string s.
Returned(op, a1, a2, s, r) ==
    /\ db' = r.db
    /\ prev' = db
    /\ held' = Hold(Deref(Released(held, op, a1, r), r.db), op, r)
    /\ \E run \in Saved(NoSave(disk), r.db,
                        IF backend = "File" THEN FileStorage_saves(op, a1, r.threw)
                        ELSE <<>>) :
           /\ disk' = run.disk
           /\ phase' = IF run.crashed THEN "crashed" ELSE phase
           /\ last' = [op |-> op, a1 |-> a1, a2 |-> a2, s |-> s,
                       threw |-> r.threw, ret |-> r.ret, code |-> 0,
                       wrote |-> run.wrote, failed |-> run.failed,
                       crashed |-> run.crashed, ids |-> <<>>]

\* A behaviour's calls stay within one group of collections: the groups have
\* disjoint write sets and no operation reads a collection of another group.
\* Users are referenced from every group, so every scope may create them.
Scopes == {"users", "tasks", "features", "boundaries"}

\* A call of an operation of the groups sc.  One clock tick passes from one
\* call to the next.
Called(sc) ==
    /\ scope \in sc
    /\ phase = "contract"
    /\ nops < MaxOps
    /\ nops' = nops + 1
    /\ now' = now + 1
    /\ UNCHANGED <<backend, scope, pending>>

Init ==
    /\ backend \in {"File", "Mem"}
    /\ db = EmptyDb
    /\ prev = EmptyDb
    /\ now = 0
    /\ last = NoCall
    /\ nops = 0
    /\ phase = "contract"
    /\ scope \in Scopes
    /\ disk = EmptyDisk(FALSE)
    /\ held = NoHeld
    /\ pending = NoPending

GetUser ==
    /\ Called({"users"})
    /\ \E id \in UserIdArgs(db) :
           Returned("getUser", id, NoId, Undefined, Storage_getUser(backend, db, id))
GetTeam ==
    /\ Called({"users"})
    /\ \E id \in TeamIdArgs(db) :
           Returned("getTeam", id, NoId, Undefined, Storage_getTeam(backend, db, id))
GetTask ==
    /\ Called({"tasks"})
    /\ \E id \in TaskIdArgs(db) :
           Returned("getTask", id, NoId, Undefined, Storage_getTask(backend, db, id))
GetFeature ==
    /\ Called({"features"})
    /\ \E id \in FeatureIdArgs(db) :
           Returned("getFeature", id, NoId, Undefined,
                    Storage_getFeature(backend, db, id))
GetBoundary ==
    /\ Called({"boundaries"})
    /\ \E id \in BoundaryIdArgs(db) :
           Returned("getBoundary", id, NoId, Undefined,
                    Storage_getBoundary(backend, db, id))

CreateUser ==
    /\ Called(Scopes)
    /\ \E in \in UserInputs(db), g \in RandomDraws :
           Returned("createUser", NoId, in.teamId, in.role,
                    Storage_createUser(backend, db, now, g, in))
CreateTeam ==
    /\ Called({"users"})
    /\ \E in \in TeamInputs, g \in RandomDraws :
           Returned("createTeam", NoId, NoId, in.status,
                    Storage_createTeam(backend, db, now, g, in))
UpdateTeamStatus ==
    /\ Called({"users"})
    /\ \E id \in TeamIdArgs(db), st \in TeamStatuses, by \in {NoId, AbsentId} :
           Returned("updateTeamStatus", id, by, st,
                    Storage_updateTeamStatus(backend, db, now, id, st, by))
AssignUserToTeam ==
    /\ Called({"users"})
    /\ \E u \in UserIdArgs(db), tm \in TeamIdArgs(db) :
           Returned("assignUserToTeam", u, tm, Undefined,
                    Storage_assignUserToTeam(backend, db, now, u, tm))
CreateTask ==
    /\ Called({"tasks"})
    /\ \E in \in TaskInputs, g \in RandomDraws :
           Returned("createTask", NoId, NoId, in.status,
                    Storage_createTask(backend, db, now, g, in))
UpdateTaskStatus ==
    /\ Called({"tasks"})
    /\ \E id \in TaskIdArgs(db), st \in StatusArgs, u \in UserIdArgs(db),
          g \in RandomDraws :
           Returned("updateTaskStatus", id, u, st,
                    Storage_updateTaskStatus(backend, db, now, g, id, st, u))
AssignTask ==
    /\ Called({"tasks"})
    /\ \E id \in TaskIdArgs(db), u \in UserIdArgs(db) :
           Returned("assignTask", id, u, Undefined,
                    Storage_assignTask(backend, db, now, id, u))
CreateTaskUpdate ==
    /\ Called({"tasks"})
    /\ \E in \in TaskUpdateInputs(db), g \in RandomDraws :
           Returned("createTaskUpdate", in.taskId, in.userId, Undefined,
                    Storage_createTaskUpdate(backend, db, now, g, in))
AddTaskEvidence ==
    /\ Called({"tasks"})
    /\ \E in \in TaskEvidenceInputs(db), g \in RandomDraws :
           Returned("addTaskEvidence", in.taskId, in.userId, Undefined,
                    Storage_addTaskEvidence(backend, db, now, g, in))
CreateFeature ==
    /\ Called({"features"})
    /\ \E in \in FeatureInputs, g \in RandomDraws :
           Returned("createFeature", NoId, NoId, Undefined,
                    Storage_createFeature(backend, db, now, g, in))
DeleteFeature ==
    /\ Called({"features"})
    /\ \E id \in FeatureIdArgs(db) :
           Returned("deleteFeature", id, NoId, Undefined,
                    Storage_deleteFeature(backend, db, id))
UpdateFeature ==
    /\ Called({"features"})
    /\ \E id \in FeatureIdArgs(db), featureUpdate \in FeatureUpdates :
           Returned("updateFeature", id, featureUpdate._id, Undefined,
                    Storage_updateFeature(backend, db, now, id, featureUpdate))
CreateBoundary ==
    /\ Called({"boundaries"})
    /\ \E in \in BoundaryInputs, g \in RandomDraws :
           Returned("createBoundary", NoId, NoId, Undefined,
                    Storage_createBoundary(backend, db, now, g, in))
UpdateBoundaryStatus ==
    /\ Called({"boundaries"})
    /\ \E id \in BoundaryIdArgs(db) :
           Returned("updateBoundaryStatus", id, NoId, "Completed",
                    Storage_updateBoundaryStatus(backend, db, now, id, "Completed"))
AssignBoundary ==
    /\ Called({"boundaries"})
    /\ \E id \in BoundaryIdArgs(db), u \in UserIdArgs(db) :
           Returned("assignBoundary", id, u, Undefined,
                    Storage_assignBoundary(backend, db, now, id, u))

Next ==
    \/ GetUser \/ GetTeam \/ GetTask \/ GetFeature \/ GetBoundary
    \/ CreateUser \/ CreateTeam \/ UpdateTeamStatus \/ AssignUserToTeam
    \/ CreateTask \/ UpdateTaskStatus \/ AssignTask
    \/ CreateTaskUpdate \/ AddTaskEvidence
    \/ CreateFeature \/ UpdateFeature \/ DeleteFeature
    \/ CreateBoundary \/ UpdateBoundaryStatus \/ AssignBoundary

Spec == Init /\ [][Next]_vars

\* JSON.parse(fs.readFileSync(filePath)) of a file that exists: the value
\* the text stands for, in which a date is the string it was written as and
\* a key that was left out is absent. A text that is not complete does not
\* parse.
JSON_parse(file) ==
    [threw |-> file.state # "complete", value |-> file.records]
\* loadUsers ... loadTaskEvidence: the map of a collection after loading its
\* file. A file that does not exist, or whose parsing throws, leaves the
\* map empty.
load(dk, c) ==
    IF dk.files[c].state = "absent" THEN <<>>
    ELSE IF JSON_parse(dk.files[c]).threw THEN <<>>
    ELSE JSON_parse(dk.files[c]).value
\* new FileStorage(): the constructor's loadAllData on empty maps
loadAllData(dk) ==
    [ c \in DOMAIN EmptyDb |-> IF c \in Files THEN load(dk, c) ELSE EmptyDb[c] ]

\* The process ends and a new one constructs its FileStorage on the same
\* data directory. Nothing of the old process's memory is left.
Restart ==
    /\ backend = "File"
    /\ phase \in {"contract", "crashed"}
    /\ nops > 0
    /\ db' = loadAllData(disk)
    /\ prev' = db
    /\ last' = [NoCall EXCEPT !.op = "restart"]
    /\ phase' = "restarted"
    /\ held' = NoHeld
    /\ now' = now + 1
    /\ pending' = NoPending
    /\ UNCHANGED <<backend, nops, scope, disk>>

\* FileStorage.updateTaskStatus from its call to its first suspension. The
\* body of an async function runs synchronously up to its first await, and
\* the operand of that await, this.createTaskUpdate(...), is a call whose
\* body has no await and so runs to its end within the call expression: the
\* run covers the status write, saveTasks, the append and saveTaskUpdates.
\* A throw ends the call without suspension. What is left for the resumed
\* call is `return task`.
updateTaskStatus_UpToAwait(d, t, g, id, status, userId) ==
    LET r == FileStorage_updateTaskStatus(d, t, g, id, status, userId)
    IN  [db |-> r.db, threw |-> r.threw]

\* The file backend called by concurrent requests: a call of
\* updateTaskStatus is suspended at its await and other calls run before it
\* is resumed.
InitAsync ==
    /\ backend = "File"
    /\ db = EmptyDb
    /\ prev = EmptyDb
    /\ now = 0
    /\ last = NoCall
    /\ nops = 0
    /\ phase = "contract"
    /\ scope = "tasks"
    /\ disk = EmptyDisk(FALSE)
    /\ held = NoHeld
    /\ pending = NoPending

\* A call of updateTaskStatus runs up to its first suspension.
StartUpdateTaskStatus ==
    /\ phase = "contract"
    /\ ~pending.active
    /\ nops < MaxOps
    /\ nops' = nops + 1
    /\ now' = now + 1
    /\ \E id \in TaskIdArgs(db), st \in StatusArgs, u \in UserIdArgs(db),
          g \in RandomDraws :
           LET r == updateTaskStatus_UpToAwait(db, now, g, id, st, u)
           IN  /\ db' = r.db
               /\ prev' = db
               /\ disk' = Persisted(backend, disk, db, r.db)
               /\ held' = Deref(held, r.db)
               /\ pending' = IF r.threw THEN NoPending
                              ELSE [active |-> TRUE, id |-> id, userId |-> u,
                                    s |-> st]
               /\ last' = [NoCall EXCEPT !.op = "updateTaskStatus: call",
                                         !.a1 = id, !.a2 = u, !.s = st,
                                         !.threw = r.threw,
                                         !.wrote = Modified(db, r.db)]
    /\ UNCHANGED <<backend, phase, scope>>
\* The suspended call is resumed and returns the task.
ResumeUpdateTaskStatus ==
    /\ phase = "contract"
    /\ pending.active
    /\ now' = now + 1
    /\ prev' = db
    /\ pending' = NoPending
    /\ last' = [NoCall EXCEPT !.op = "updateTaskStatus",
                              !.a1 = pending.id, !.a2 = pending.userId,
                              !.s = pending.s,
                              !.ret = Lookup(db.tasks, pending.id)]
    /\ held' = Hold(held, "updateTaskStatus",
                    [threw |-> FALSE, ret |-> Lookup(db.tasks, pending.id)])
    /\ UNCHANGED <<backend, db, nops, phase, scope, disk>>

NextAsync ==
    \/ StartUpdateTaskStatus \/ ResumeUpdateTaskStatus
    \/ CreateUser \/ CreateTask \/ GetTask \/ AssignTask \/ CreateTaskUpdate
SpecAsync == InitAsync /\ [][NextAsync]_vars

\* Array.prototype.sort((a, b) => b.createdAt.getTime() - a.createdAt.getTime()).
\* The comparator is not called for an array of fewer than two elements; in a
\* longer array every element is an operand of some comparison, and the
\* comparison throws TypeError when the createdAt of an operand is a string.
SortByGetTime(seq) ==
    IF Len(seq) >= 2 /\ \E i \in 1..Len(seq) : IsIsoString(seq[i].createdAt)
    THEN [threw |-> TRUE, ret |-> <<>>]
    ELSE [threw |-> FALSE, ret |-> SortNewestFirst(seq)]
FileStorage_getAllTasks(d) == SortByGetTime(d.tasks)
\* getTaskUpdates and getTaskEvidence: the records of collection c that
\* belong to the task, sorted
FileStorage_getTaskRecords(d, c, taskId) ==
    IF ~isValidObjectId(taskId) THEN [threw |-> FALSE, ret |-> <<>>]
    ELSE LET OfTask(u) == u.taskId = taskId
         IN  SortByGetTime(SelectSeq(d[c], OfTask))

\* A list operation called on the store of the new process
Listed(op, a1, r) ==
    /\ backend = "File"
    /\ phase = "restarted"
    /\ last.op = "restart"
    /\ last' = [NoCall EXCEPT !.op = op, !.a1 = a1, !.threw = r.threw,
                              !.ret = r.ret]
    /\ UNCHANGED <<backend, db, prev, now, nops, phase, scope, disk, held,
                   pending>>
GetAllTasks ==
    /\ scope = "tasks"
    /\ Listed("getAllTasks", NoId, FileStorage_getAllTasks(db))
GetTaskUpdates ==
    /\ scope = "tasks"
    /\ \E id \in TaskIdArgs(db) :
           Listed("getTaskUpdates", id,
                  FileStorage_getTaskRecords(db, "taskUpdates", id))
GetTaskEvidence ==
    /\ scope = "tasks"
    /\ \E id \in TaskIdArgs(db) :
           Listed("getTaskEvidence", id,
                  FileStorage_getTaskRecords(db, "taskEvidence", id))

\* Calls of updateFeature by concurrent requests. pending is the sequence of
\* the calls made: the arguments, what the call read before its suspension,
\* and the times of the call and of its completion.
InitFeatureAsync ==
    /\ backend \in {"File", "Mem"}
    /\ db = EmptyDb
    /\ prev = EmptyDb
    /\ now = 0
    /\ last = NoCall
    /\ nops = 0
    /\ phase = "contract"
    /\ scope = "features"
    /\ disk = EmptyDisk(FALSE)
    /\ held = NoHeld
    /\ pending = <<>>
\* A call of updateFeature runs up to its first suspension. MemStorage's
\* body stops at `await this.getFeature(id)`, whose operand has read the map;
\* FileStorage's body has no await and runs to its end, the caller's await
\* of the promise being all that is left.
StartUpdateFeature ==
    /\ phase = "contract"
    /\ scope = "features"
    /\ nops < MaxOps
    /\ nops' = nops + 1
    /\ now' = now + 1
    /\ \E id \in FeatureIdArgs(db), featureUpdate \in FeatureUpdates :
           LET r == IF backend = "File"
                    THEN FileStorage_updateFeature(db, now, id, featureUpdate)
                    ELSE MemStorage_getFeature(db, id)
           IN  /\ db' = r.db
               /\ prev' = db
               /\ disk' = Persisted(backend, disk, db, r.db)
               /\ pending' = Append(pending,
                                 [id |-> id, featureUpdate |-> featureUpdate,
                                  read |-> IF backend = "File" THEN <<>> ELSE r.ret,
                                  threw |-> r.threw, called |-> now,
                                  completed |-> NoDate])
               /\ last' = [NoCall EXCEPT !.op = "updateFeature: call", !.a1 = id,
                                         !.threw = r.threw]
    /\ UNCHANGED <<backend, phase, scope, held>>
\* A suspended call is resumed and runs to its end.
ResumeUpdateFeature ==
    /\ phase = "contract"
    /\ scope = "features"
    /\ now' = now + 1
    /\ \E i \in DOMAIN pending :
           /\ pending[i].completed = NoDate
           /\ LET c == pending[i]
                  r == IF backend = "File" THEN [db |-> db, threw |-> c.threw]
                       ELSE MemStorage_updateFeature_AfterAwait(db, now, c.id, c.read,
                                                                c.featureUpdate)
              IN  /\ db' = r.db
                  /\ prev' = db
                  /\ pending' = [pending EXCEPT ![i].completed = now,
                                                ![i].threw = r.threw]
                  /\ last' = [NoCall EXCEPT !.op = "updateFeature", !.a1 = c.id,
                                            !.threw = r.threw]
    /\ UNCHANGED <<backend, nops, phase, scope, disk, held>>

NextFeatureAsync == CreateFeature \/ StartUpdateFeature \/ ResumeUpdateFeature
SpecFeatureAsync == InitFeatureAsync /\ [][NextFeatureAsync]_vars

\* The storage contract with a restart of the process at any point
NextRestart ==
    \/ Next \/ Restart
    \/ GetAllTasks \/ GetTaskUpdates \/ GetTaskEvidence
SpecRestart == Init /\ [][NextRestart]_vars

\* new FileStorage() when fs.readFileSync throws for the files of the
\* collections in unreadable (EACCES, EIO, EMFILE): the catch of the load
\* routine logs the error and the map stays empty; the file is as it was.
loadAllDataExcept(dk, unreadable) ==
    [ c \in DOMAIN EmptyDb |->
          IF c \in Files \ unreadable THEN load(dk, c) ELSE EmptyDb[c] ]
\* A restart in which one file that exists cannot be read
RestartUnreadable ==
    /\ backend = "File"
    /\ phase = "contract"
    /\ nops > 0
    /\ \E c \in Files :
           /\ disk.files[c].state = "complete"
           /\ db' = loadAllDataExcept(disk, {c})
    /\ prev' = db
    /\ last' = [NoCall EXCEPT !.op = "restart"]
    /\ phase' = "restarted"
    /\ held' = NoHeld
    /\ now' = now + 1
    /\ pending' = NoPending
    /\ UNCHANGED <<backend, nops, scope, disk>>
\* The first create of the new process, as the createUser of addInitialData
CreateUserReloaded ==
    /\ backend = "File"
    /\ scope = "users"
    /\ phase = "restarted"
    /\ last.op = "restart"
    /\ now' = now + 1
    /\ \E in \in UserInputs(db), g \in RandomDraws :
           Returned("createUser", NoId, in.teamId, in.role,
                    FileStorage_createUser(db, now, g, in))
    /\ UNCHANGED <<backend, nops, scope, pending>>

\* The storage contract with restarts in which a file may be unreadable
NextReload == NextRestart \/ RestartUnreadable \/ CreateUserReloaded
SpecReload == Init /\ [][NextReload]_vars

\* The file backend on a disk whose writes can fail and whose process can
\* crash during a write.
InitIO ==
    /\ backend = "File"
    /\ db = EmptyDb
    /\ prev = EmptyDb
    /\ now = 0
    /\ last = NoCall
    /\ nops = 0
    /\ phase = "contract"
    /\ scope \in Scopes
    /\ disk = EmptyDisk(TRUE)
    /\ held = NoHeld
    /\ pending = NoPending

SpecIO == InitIO /\ [][Next]_vars

----------------------------------------------------------------------------
(* The application: startup (src/server/index.ts) and the user and team    *)
(* routes (src/server/routes.ts).  A request is served in one step.        *)

\* bcrypt.hash(password, 10) and bcrypt.compare(password, stored)
Hash(password) == "$2a$10$" \o password
Compare(password, stored) == stored = Hash(password)

\* The passwords the clients log in with.
Passwords == {"secret", "supervisor@12", "demo123"}
\* passport's LocalStrategy, serializeUser and deserializeUser: the users a
\* request's session can belong to.  NoId is a request without a session.
Sessions(d) ==
    {NoId} \cup { d.users[i]._id : i \in { k \in 1..Len(d.users) :
                      \E pw \in Passwords : Compare(pw, d.users[k].password) } }
ReqUser(d, actor) ==
    IF actor = NoId THEN <<>> ELSE Storage_getUser(backend, d, actor).ret
isAuthenticated(d, actor) == ReqUser(d, actor) # <<>>
isSupervisor(d, actor) ==
    isAuthenticated(d, actor) /\ ReqUser(d, actor)[1].role = "Supervisor"

\* initializeStorage: the database backend unless USE_MONGODB is "false" or
\* the connection fails, and then the file backend.
\* A variant of initializeStorage that keeps the module's default backend
\* when the database is not used.
initializeStorage_KeepDefault(env, connects, constructs) ==
    LET useMongoDb == env # "false"
    IN  IF useMongoDb /\ connects
        THEN [attempted |-> TRUE, threw |-> FALSE, storage |-> "Mongo"]
        ELSE [attempted |-> useMongoDb, threw |-> FALSE, storage |-> "Mem"]

\* env is the value of process.env.USE_MONGODB, connects tells whether
\* setupDatabase() resolves, constructs whether `new FileStorage()` returns.
initializeStorage(env, connects, constructs) ==
    LET useMongoDb == env # "false"
    IN  IF useMongoDb /\ connects
        THEN [attempted |-> TRUE, threw |-> FALSE, storage |-> "Mongo"]
        ELSE IF constructs
        THEN [attempted |-> useMongoDb, threw |-> FALSE, storage |-> "File"]
        ELSE [attempted |-> useMongoDb, threw |-> TRUE, storage |-> "none"]
\* The startup's catch block: what becomes of a startup whose
\* initializeStorage() threw. mentions tells whether the error's message
\* includes "MongoDB", constructs whether the second `new FileStorage()`
\* returns.
EmergencyFallback(mentions, constructs) ==
    IF mentions /\ constructs THEN [phase |-> "emergency", storage |-> "File"]
    ELSE [phase |-> "exited", storage |-> "Mem"]
\* The values of USE_MONGODB the startup is run with
EnvValues == {Undefined, "true", "false", "FALSE", "0"}

supervisorData ==
    [username |-> "supervisor12", password |-> "supervisor@12",
     role |-> "Supervisor", teamId |-> NoId]
SeedTeams(supervisorId) ==
    << [name |-> "Field Team Alpha", status |-> "Approved", createdBy |-> supervisorId],
       [name |-> "Field Team Beta", status |-> "Approved", createdBy |-> supervisorId],
       [name |-> "Maintenance Team", status |-> "Approved", createdBy |-> supervisorId],
       [name |-> "Survey Team", status |-> "Approved", createdBy |-> supervisorId] >>
fieldUserData(teamId) ==
    [username |-> "field_user_demo", password |-> "demo123", role |-> "Field",
     teamId |-> teamId]

\* `for (const teamData of teams) await storage.createTeam(teamData)`, the
\* k-th team created at tick t + k with the random draw gs[k + 1].
RECURSIVE CreateTeams(_, _, _, _, _)
CreateTeams(b, d, t, gs, teams) ==
    IF teams = <<>> THEN d
    ELSE LET k == Len(teams)
             d1 == CreateTeams(b, d, t, gs, SubSeq(teams, 1, k - 1))
         IN  Storage_createTeam(b, d1, t + k, gs[k + 1], teams[k]).db

\* addInitialData(storage), started at tick t with the random draws gs
addInitialData(b, d, t, gs) ==
    LET existingSupervisor == Storage_getUserByUsername(b, d, "supervisor12")
        created == Storage_createUser(b, d, t, gs[1], supervisorData)
        d1 == IF existingSupervisor = <<>> THEN created.db ELSE d
        supervisorId == IF existingSupervisor = <<>> THEN created.ret[1]._id
                        ELSE existingSupervisor[1]._id
        allTeams == Storage_getAllTeams(b, d1)
        d2 == IF Len(allTeams) = 0
              THEN CreateTeams(b, d1, t, gs, SeedTeams(supervisorId))
              ELSE d1
        existingFieldUser == Storage_getUserByUsername(b, d2, "field_user_demo")
    IN  IF existingFieldUser = <<>> /\ Len(allTeams) > 0
        THEN Storage_createUser(b, d2, t + 5, gs[6],
                                fieldUserData(allTeams[1]._id)).db
        ELSE d2

\* The response `code` with body `ret` of request op of session `actor`
\* that leaves the database d.
Responded(op, actor, code, d, ret) ==
    /\ db' = d
    /\ prev' = db
    /\ disk' = Persisted(backend, disk, db, d)
    /\ last' = [op |-> op, a1 |-> actor, a2 |-> NoId, s |-> Undefined,
                threw |-> FALSE, ret |-> ret, code |-> code,
                wrote |-> Modified(db, d), failed |-> {}, crashed |-> FALSE,
                ids |-> <<>>]

\* The same for a request that names the target id (a route's :id), the
\* id list ids and the status s.
RespondedTo(op, actor, target, ids, s, code, d, ret) ==
    /\ db' = d
    /\ prev' = db
    /\ disk' = Persisted(backend, disk, db, d)
    /\ last' = [op |-> op, a1 |-> actor, a2 |-> target, s |-> s,
                threw |-> FALSE, ret |-> ret, code |-> code,
                wrote |-> Modified(db, d), failed |-> {}, crashed |-> FALSE,
                ids |-> ids]

\* `const { password, ...userResponse } = user`
WithoutPassword(user) == [f \in DOMAIN user \ {"password"} |-> user[f]]

UserBodies(d) ==
    { [username |-> "alice", password |-> "secret", role |-> "Supervisor",
       teamId |-> NoId] }
    \cup { [username |-> "bob", password |-> "secret", role |-> "Field",
            teamId |-> tm] : tm \in {NoId, AbsentId, MalformedId} \cup Keys(d.teams) }

\* POST /api/users up to `await bcrypt.hash(...)`: the checks of the team of
\* a field user refuse the request.
PostUsers_Refused(d, userData) ==
    IF userData.role = "Field" /\ userData.teamId # NoId
          /\ ~isValidObjectId(userData.teamId)
    THEN TRUE
    ELSE IF userData.role = "Field" /\ userData.teamId # NoId
               /\ Storage_getTeam(backend, d, userData.teamId).ret = <<>>
    THEN TRUE
    ELSE userData.role = "Field" /\ userData.teamId # NoId
            /\ Storage_getTeam(backend, d, userData.teamId).ret[1].status # "Approved"
\* POST /api/users from the hash on: createUser and the response
PostUsers_AfterHash(d, t, g, userData) ==
    LET r == Storage_createUser(backend, d, t, g,
                 [userData EXCEPT !.password = Hash(@)])
    IN  IF r.threw THEN [code |-> 500, db |-> r.db, ret |-> <<>>]
        ELSE [code |-> 201, db |-> r.db, ret |-> <<WithoutPassword(r.ret[1])>>]
\* POST /api/users served without another request between its awaits
PostUsersHandler(d, t, g, userData) ==
    IF PostUsers_Refused(d, userData)
    THEN [code |-> 400, db |-> d, ret |-> <<>>]
    ELSE PostUsers_AfterHash(d, t, g, userData)

\* The LocalStrategy's verify function: done(null, false) or
\* done(null, user) with the stored user, or done(error)
LocalStrategy(d, t, username, password) ==
    LET user == Storage_getUserByUsername(backend, d, username)
    IN  IF user = <<>> THEN [db |-> d, threw |-> FALSE, user |-> <<>>]
        ELSE IF ~Compare(password, user[1].password)
        THEN [db |-> d, threw |-> FALSE, user |-> <<>>]
        ELSE LET r == Storage_updateUserLastActive(backend, d, t, user[1]._id)
             IN  [db |-> r.db, threw |-> r.threw,
                  user |-> IF r.threw THEN <<>> ELSE r.ret]
\* POST /api/login: passport.authenticate("local") answers 401 unless the
\* strategy gave a user, which it sets as req.user; the handler answers
\* { user: req.user }.
LoginHandler(d, t, username, password) ==
    LET a == LocalStrategy(d, t, username, password)
    IN  IF a.threw THEN [code |-> 500, db |-> a.db, ret |-> <<>>]
        ELSE IF a.user = <<>> THEN [code |-> 401, db |-> a.db, ret |-> <<>>]
        ELSE [code |-> 200, db |-> a.db, ret |-> a.user]

\* POST /api/users/:id/assign-team, past the isSupervisor middleware
AssignTeamHandler(d, t, id, teamId) ==
    IF ~isValidObjectId(id) THEN [code |-> 400, db |-> d, ret |-> <<>>]
    ELSE IF teamId = NoId THEN [code |-> 400, db |-> d, ret |-> <<>>]
    ELSE IF ~isValidObjectId(teamId) THEN [code |-> 400, db |-> d, ret |-> <<>>]
    ELSE LET r == Storage_assignUserToTeam(backend, d, t, id, teamId)
         IN  IF r.threw THEN [code |-> 500, db |-> r.db, ret |-> <<>>]
             ELSE [code |-> 200, db |-> r.db, ret |-> <<WithoutPassword(r.ret[1])>>]

\* PATCH /api/teams/:id/status, past the isSupervisor middleware
TeamStatusHandler(d, t, actor, id, status) ==
    IF ~isValidObjectId(id) THEN [code |-> 400, db |-> d, ret |-> <<>>]
    ELSE IF status \notin {"Pending", "Approved", "Rejected"}
    THEN [code |-> 400, db |-> d, ret |-> <<>>]
    ELSE IF Storage_getTeam(backend, d, id).ret = <<>>
    THEN [code |-> 404, db |-> d, ret |-> <<>>]
    ELSE LET r == Storage_updateTeamStatus(backend, d, t, id, status,
                      IF status = "Approved" THEN actor ELSE NoId)
         IN  IF r.threw THEN [code |-> 500, db |-> r.db, ret |-> <<>>]
             ELSE [code |-> 200, db |-> r.db, ret |-> r.ret]

\* POST /api/teams, past the isAuthenticated middleware
PostTeamsHandler(d, t, g, actor, body) ==
    LET teamData == [body EXCEPT
                        !.createdBy = actor,
                        !.status = IF ReqUser(d, actor)[1].role = "Supervisor"
                                   THEN "Approved" ELSE @]
        r == Storage_createTeam(backend, d, t, g, teamData)
    IN  IF r.threw THEN [code |-> 500, db |-> r.db, ret |-> <<>>]
        ELSE [code |-> 201, db |-> r.db, ret |-> r.ret]

\* PUT /api/tasks/:id/status, past the isAuthenticated middleware
PutTaskStatusHandler(d, t, g, actor, id, status) ==
    IF ~isValidObjectId(id) THEN [code |-> 400, db |-> d, ret |-> <<>>]
    ELSE IF status = Undefined THEN [code |-> 400, db |-> d, ret |-> <<>>]
    ELSE LET r == Storage_updateTaskStatus(backend, d, t, g, id, status, actor)
         IN  IF r.threw THEN [code |-> 500, db |-> r.db, ret |-> <<>>]
             ELSE [code |-> 200, db |-> r.db, ret |-> r.ret]

\* `(storage as any).getUsersNearLocation !== undefined`: FileStorage and
\* MemStorage have no such method; the database backend has the enhanced
\* methods.
hasEnhancedMethods(b) == b = "Mongo"
\* taskIds.filter((id) => !isValidObjectId(id))
InvalidIds(taskIds) ==
    LET Invalid(id) == ~isValidObjectId(id) IN SelectSeq(taskIds, Invalid)

\* A variant of the bulk-status handler that leaves the malformed ids out
\* and goes on with the others.
BulkStatusHandler_SkipInvalid(taskIds, status) ==
    IF taskIds = <<>> THEN [code |-> 400, invoked |-> FALSE, ret |-> <<>>]
    ELSE IF status = Undefined THEN [code |-> 400, invoked |-> FALSE, ret |-> <<>>]
    ELSE [code |-> 200, invoked |-> TRUE, ret |-> <<>>]

\* PATCH /api/tasks/bulk-status, past the isAuthenticated middleware, up to
\* its call of storage.bulkUpdateTaskStatus
BulkStatusHandler(taskIds, status) ==
    IF taskIds = <<>> THEN [code |-> 400, invoked |-> FALSE, ret |-> <<>>]
    ELSE IF status = Undefined THEN [code |-> 400, invoked |-> FALSE, ret |-> <<>>]
    ELSE IF InvalidIds(taskIds) # <<>>
    THEN [code |-> 400, invoked |-> FALSE,
          ret |-> <<[invalidIds |-> InvalidIds(taskIds)]>>]
    ELSE [code |-> 200, invoked |-> TRUE, ret |-> <<>>]

\* A behaviour's requests stay within one group of routes: the user and
\* team routes, or the task routes. Users register in both.
AppScopes == {"users", "tasks", "session"}

InitApp ==
    /\ backend = "Mem"
    /\ db = EmptyDb
    /\ prev = EmptyDb
    /\ now = 0
    /\ last = NoCall
    /\ nops = 0
    /\ phase = "boot"
    /\ scope \in AppScopes
    /\ disk = EmptyDisk(FALSE)
    /\ held = NoHeld
    /\ pending = NoPending

\* The random draws of the seed routine's creates: the first two are free,
\* the later ones repeat them in turn, so that creates of one second draw
\* equal values in some runs and different values in others.
SeedDraws ==
    { gs \in [1..SeedCreates -> RandomDraws] :
          \A i \in 3..SeedCreates : gs[i] = gs[i - 2] }

\* The startup's `storage = await initializeStorage(); setStorage(storage)`
\* and, when that throws, its catch block. The database backend is outside
\* this source: a run that selects it is followed no further.
InitializeStorage ==
    /\ phase = "boot"
    /\ \E env \in EnvValues, connects, constructs, mentions, again \in BOOLEAN :
           LET r == initializeStorage(env, connects, constructs)
               e == EmergencyFallback(mentions, again)
           IN  /\ backend' = IF r.threw THEN e.storage ELSE r.storage
               /\ phase' = IF r.threw THEN e.phase
                           ELSE IF r.storage = "Mongo" THEN "external"
                           ELSE "seeding"
               /\ last' = [NoCall EXCEPT !.op = "initializeStorage", !.s = env,
                                         !.threw = r.threw,
                                         !.ret = <<[attempted |-> r.attempted,
                                                    connects |-> connects]>>]
    /\ UNCHANGED <<db, prev, now, nops, scope, disk, held, pending>>

\* The startup's `await addInitialData(storage)` and `registerRoutes(app)`;
\* the catch block's `await addInitialData(storage)`, after which no route
\* is registered.
AddInitialData ==
    /\ phase \in {"seeding", "emergency"}
    /\ \E gs \in SeedDraws :
           /\ db' = addInitialData(backend, db, now, gs)
           /\ prev' = db
           /\ disk' = Persisted(backend, disk, db, db')
    /\ now' = now + SeedCreates
    /\ last' = [NoCall EXCEPT !.op = "addInitialData"]
    /\ phase' = IF phase = "seeding" THEN "serving" ELSE "stalled"
    /\ UNCHANGED <<backend, nops, scope, held, pending>>

Served ==
    /\ phase = "serving"
    /\ nops < MaxRequests
    /\ nops' = nops + 1
    /\ now' = now + 1
    /\ UNCHANGED <<backend, phase, scope, held, pending>>

PostUsers ==
    /\ Served
    /\ \E body \in UserBodies(db), g \in RandomDraws :
           LET r == PostUsersHandler(db, now, g, body)
           IN  Responded("POST /api/users", NoId, r.code, r.db, r.ret)
PostAssignTeam ==
    /\ scope = "users"
    /\ Served
    /\ \E actor \in Sessions(db) :
           \/ /\ ~isSupervisor(db, actor)
              /\ Responded("POST /api/users/:id/assign-team", actor, 403, db, <<>>)
           \/ /\ isSupervisor(db, actor)
              /\ \E id \in Keys(db.users) \cup {MalformedId},
                    teamId \in Keys(db.teams) \cup {NoId, AbsentId, MalformedId} :
                     LET r == AssignTeamHandler(db, now, id, teamId)
                     IN  Responded("POST /api/users/:id/assign-team", actor,
                                   r.code, r.db, r.ret)
PatchTeamStatus ==
    /\ scope = "users"
    /\ Served
    /\ \E actor \in Sessions(db) :
           \/ /\ ~isSupervisor(db, actor)
              /\ Responded("PATCH /api/teams/:id/status", actor, 403, db, <<>>)
           \/ /\ isSupervisor(db, actor)
              /\ \E id \in Keys(db.teams) \cup {AbsentId, MalformedId},
                    status \in TeamStatuses \cup {"Archived"} :
                     LET r == TeamStatusHandler(db, now, actor, id, status)
                     IN  Responded("PATCH /api/teams/:id/status", actor,
                                   r.code, r.db, r.ret)
PostTeams ==
    /\ scope = "users"
    /\ Served
    /\ \E actor \in Sessions(db) :
           \/ /\ ~isAuthenticated(db, actor)
              /\ Responded("POST /api/teams", actor, 401, db, <<>>)
           \/ /\ isAuthenticated(db, actor)
              /\ \E g \in RandomDraws :
                     LET r == PostTeamsHandler(db, now, g, actor,
                                  [name |-> "Gamma", status |-> Undefined,
                                   createdBy |-> NoId])
                     IN  Responded("POST /api/teams", actor, r.code, r.db, r.ret)

\* The credentials of the login requests
LoginNames == {"alice", "supervisor12"}
PostLogin ==
    /\ scope = "session"
    /\ Served
    /\ \E username \in LoginNames, password \in {"secret", "supervisor@12"} :
           LET r == LoginHandler(db, now, username, password)
           IN  Responded("POST /api/login", NoId, r.code, r.db, r.ret)
PutTaskStatus ==
    /\ scope = "tasks"
    /\ Served
    /\ \E actor \in Sessions(db) :
           \/ /\ ~isAuthenticated(db, actor)
              /\ RespondedTo("PUT /api/tasks/:id/status", actor, NoId, <<>>,
                             Undefined, 401, db, <<>>)
           \/ /\ isAuthenticated(db, actor)
              /\ \E id \in Keys(db.tasks) \cup {AbsentId, MalformedId},
                    status \in {"Completed", Undefined} :
                     \* the random draws are made once the task is found
                     \E g \in IF Has(db.tasks, id) THEN RandomDraws
                               ELSE {<<0, 0, 0>>} :
                         LET r == PutTaskStatusHandler(db, now, g, actor, id, status)
                         IN  RespondedTo("PUT /api/tasks/:id/status", actor, id,
                                         <<>>, status, r.code, r.db, r.ret)
\* The id lists of the bulk requests
BulkIds == {<<AbsentId>>, <<AbsentId, MalformedId>>}
\* PATCH /api/tasks/bulk-status. On a backend without the enhanced methods
\* the route is not registered and the request is answered by what comes
\* after the routes: the client's page (200) or Express's 404. On the
\* database backend the session and the outcome of bulkUpdateTaskStatus
\* are outside this source.
PatchBulkStatus ==
    /\ scope = "tasks"
    /\ phase \in {"serving", "external"}
    /\ nops < MaxRequests
    /\ nops' = nops + 1
    /\ now' = now + 1
    /\ UNCHANGED <<backend, phase, scope, held, pending>>
    /\ \E taskIds \in BulkIds :
           \/ /\ ~hasEnhancedMethods(backend)
              /\ \E code \in {200, 404} :
                     RespondedTo("PATCH /api/tasks/bulk-status", NoId, NoId,
                                 taskIds, "Completed", code, db, <<>>)
           \/ /\ hasEnhancedMethods(backend)
              /\ \E authenticated \in BOOLEAN :
                     \/ /\ ~authenticated
                        /\ RespondedTo("PATCH /api/tasks/bulk-status", NoId, NoId,
                                       taskIds, "Completed", 401, db, <<>>)
                     \/ /\ authenticated
                        /\ LET r == BulkStatusHandler(taskIds, "Completed")
                           IN  \E ok \in BOOLEAN :
                                   RespondedTo("PATCH /api/tasks/bulk-status",
                                               AbsentId, NoId, taskIds, "Completed",
                                               IF r.invoked /\ ~ok THEN 500
                                               ELSE r.code,
                                               db, r.ret)

\* POST /api/features, past the isAuthenticated middleware: the body with
\* createdBy set to the session's user
PostFeaturesHandler(d, t, g, actor, body) ==
    LET r == Storage_createFeature(backend, d, t, g, [body EXCEPT !.createdBy = actor])
    IN  IF r.threw THEN [code |-> 500, db |-> r.db, ret |-> <<>>]
        ELSE [code |-> 201, db |-> r.db, ret |-> r.ret]
\* `feature.createdBy?.toString() !== user._id.toString() &&
\* user.role !== "Supervisor"`
NotPermitted(feature, user) ==
    feature.createdBy # user._id /\ user.role # "Supervisor"
\* PUT /api/features/:id, past isAuthenticated
PutFeatureHandler(d, t, actor, id, body) ==
    IF ~isValidObjectId(id) THEN [code |-> 400, db |-> d, ret |-> <<>>]
    ELSE IF Storage_getFeature(backend, d, id).ret = <<>>
    THEN [code |-> 404, db |-> d, ret |-> <<>>]
    ELSE IF NotPermitted(Storage_getFeature(backend, d, id).ret[1],
                         ReqUser(d, actor)[1])
    THEN [code |-> 403, db |-> d, ret |-> <<>>]
    ELSE LET r == Storage_updateFeature(backend, d, t, id, body)
         IN  IF r.threw THEN [code |-> 500, db |-> r.db, ret |-> <<>>]
             ELSE [code |-> 200, db |-> r.db, ret |-> r.ret]
\* DELETE /api/features/:id, past isAuthenticated
DeleteFeatureHandler(d, actor, id) ==
    IF ~isValidObjectId(id) THEN [code |-> 400, db |-> d, ret |-> <<>>]
    ELSE IF Storage_getFeature(backend, d, id).ret = <<>>
    THEN [code |-> 404, db |-> d, ret |-> <<>>]
    ELSE IF NotPermitted(Storage_getFeature(backend, d, id).ret[1],
                         ReqUser(d, actor)[1])
    THEN [code |-> 403, db |-> d, ret |-> <<>>]
    ELSE LET r == Storage_deleteFeature(backend, d, id)
         IN  IF r.threw THEN [code |-> 500, db |-> r.db, ret |-> <<>>]
             ELSE IF r.ret[1].value THEN [code |-> 200, db |-> r.db, ret |-> <<>>]
             ELSE [code |-> 500, db |-> r.db, ret |-> <<>>]

\* A request of the feature routes is served: these behaviours register
\* their users first and have two more requests than the others.
ServedFeature ==
    /\ scope = "features"
    /\ phase = "serving"
    /\ nops < MaxRequests + 2
    /\ nops' = nops + 1
    /\ now' = now + 1
    /\ UNCHANGED <<backend, phase, scope, held, pending>>
PostFeatures ==
    /\ ServedFeature
    /\ \E actor \in Sessions(db) :
           \/ /\ ~isAuthenticated(db, actor)
              /\ RespondedTo("POST /api/features", actor, NoId, <<>>, Undefined,
                             401, db, <<>>)
           \/ /\ isAuthenticated(db, actor)
              /\ \E body \in FeatureInputs, g \in RandomDraws :
                     LET r == PostFeaturesHandler(db, now, g, actor, body)
                     IN  RespondedTo("POST /api/features", actor, NoId, <<>>,
                                     Undefined, r.code, r.db, r.ret)
PutFeature ==
    /\ ServedFeature
    /\ \E actor \in Sessions(db) :
           \/ /\ ~isAuthenticated(db, actor)
              /\ RespondedTo("PUT /api/features/:id", actor, NoId, <<>>, Undefined,
                             401, db, <<>>)
           \/ /\ isAuthenticated(db, actor)
              /\ \E id \in FeatureIdArgs(db), body \in FeatureUpdates :
                     LET r == PutFeatureHandler(db, now, actor, id, body)
                     IN  RespondedTo("PUT /api/features/:id", actor, id, <<>>,
                                     Undefined, r.code, r.db, r.ret)
DeleteFeatureRoute ==
    /\ ServedFeature
    /\ \E actor \in Sessions(db) :
           \/ /\ ~isAuthenticated(db, actor)
              /\ RespondedTo("DELETE /api/features/:id", actor, NoId, <<>>,
                             Undefined, 401, db, <<>>)
           \/ /\ isAuthenticated(db, actor)
              /\ \E id \in FeatureIdArgs(db) :
                     LET r == DeleteFeatureHandler(db, actor, id)
                     IN  RespondedTo("DELETE /api/features/:id", actor, id, <<>>,
                                     Undefined, r.code, r.db, r.ret)

\* The server with the feature routes
InitFeatures ==
    /\ backend = "Mem"
    /\ db = EmptyDb
    /\ prev = EmptyDb
    /\ now = 0
    /\ last = NoCall
    /\ nops = 0
    /\ phase = "boot"
    /\ scope = "features"
    /\ disk = EmptyDisk(FALSE)
    /\ held = NoHeld
    /\ pending = NoPending
NextFeatures ==
    \/ InitializeStorage \/ AddInitialData \/ PostUsers
    \/ PostFeatures \/ PutFeature \/ DeleteFeatureRoute
SpecFeatures == InitFeatures /\ [][NextFeatures]_vars

NextApp ==
    \/ InitializeStorage \/ AddInitialData
    \/ PostUsers \/ PostAssignTeam \/ PatchTeamStatus \/ PostTeams
    \/ PutTaskStatus \/ PatchBulkStatus \/ PostLogin

SpecApp == InitApp /\ [][NextApp]_vars

\* Requests served concurrently: POST /api/users is suspended at its await of
\* bcrypt.hash, which resolves on a later turn of the event loop, and other
\* requests are served before it goes on. pending is the suspended request.
InitRegister ==
    /\ backend = "Mem"
    /\ db = EmptyDb
    /\ prev = EmptyDb
    /\ now = 0
    /\ last = NoCall
    /\ nops = 0
    /\ phase = "boot"
    /\ scope = "users"
    /\ disk = EmptyDisk(FALSE)
    /\ held = NoHeld
    /\ pending = [active |-> FALSE, userData |-> <<>>]
\* POST /api/users up to the hash: a refused request is answered, any other
\* is suspended.
StartPostUsers ==
    /\ phase = "serving"
    /\ ~pending.active
    /\ nops < MaxRequests
    /\ nops' = nops + 1
    /\ now' = now + 1
    /\ \E body \in UserBodies(db) :
           IF PostUsers_Refused(db, body)
           THEN /\ RespondedTo("POST /api/users", NoId, body.teamId, <<>>,
                               body.role, 400, db, <<>>)
                /\ UNCHANGED pending
           ELSE /\ pending' = [active |-> TRUE, userData |-> <<body>>]
                /\ RespondedTo("POST /api/users: hash", NoId, body.teamId, <<>>,
                               body.role, 0, db, <<>>)
    /\ UNCHANGED <<backend, phase, scope, held>>
\* The hash is computed: the user is created and the request answered.
ResumePostUsers ==
    /\ phase = "serving"
    /\ pending.active
    /\ now' = now + 1
    /\ pending' = [active |-> FALSE, userData |-> <<>>]
    /\ \E g \in RandomDraws :
           LET body == pending.userData[1]
               r == PostUsers_AfterHash(db, now, g, body)
           IN  RespondedTo("POST /api/users", NoId, body.teamId, <<>>, body.role,
                           r.code, r.db, r.ret)
    /\ UNCHANGED <<backend, nops, phase, scope, held>>

NextRegister ==
    \/ InitializeStorage \/ AddInitialData
    \/ StartPostUsers \/ ResumePostUsers \/ PatchTeamStatus
SpecRegister == InitRegister /\ [][NextRegister]_vars
\* The startup is one async function that nothing else waits for and that
\* no request handler can hold up: each of its awaits is resumed.
SpecAppLive ==
    /\ InitApp /\ [][NextApp]_vars
    /\ WF_vars(InitializeStorage) /\ WF_vars(AddInitialData)

----------------------------------------------------------------------------
(* Properties of the storage contract.  `prev` is the database before the  *)
(* last call and `last` the call and its outcome, so a predicate over      *)
(* prev, last and db that holds in every reachable state holds of every    *)
(* call.                                                                   *)

Range(seq) == { seq[i] : i \in 1..Len(seq) }
Succeeded(op) == last.op = op /\ ~last.threw

\* C1: on the file backend a successful updateTaskStatus(id, status, userId)
\* leaves exactly one more TaskUpdate than before, every TaskUpdate stored
\* before is still stored, and the one added carries the task id, the user
\* id, the status the task had before, the new status and the comment
\* "Status updated to <status>".
C1_UpdateTaskStatusAddsOneUpdate ==
    (backend = "File" /\ Succeeded("updateTaskStatus")) =>
        /\ Len(db.taskUpdates) = Len(prev.taskUpdates) + 1
        /\ Range(prev.taskUpdates) \subseteq Range(db.taskUpdates)
        /\ \E u \in Range(db.taskUpdates) \ Range(prev.taskUpdates) :
               /\ u.taskId = last.a1
               /\ u.userId = last.a2
               /\ u.oldStatus = MapGet(prev.tasks, last.a1).status
               /\ u.newStatus = last.s
               /\ u.comment = "Status updated to " \o last.s

\* The tasks whose status the last call changed.
StatusChanged ==
    { id \in Keys(prev.tasks) \cap Keys(db.tasks) :
          MapGet(prev.tasks, id).status # MapGet(db.tasks, id).status }
\* The TaskUpdate records the last call added that describe the change of
\* task id.
UpdatesMatching(id) ==
    { u \in Range(db.taskUpdates) \ Range(prev.taskUpdates) :
          /\ u.taskId = id
          /\ u.oldStatus = MapGet(prev.tasks, id).status
          /\ u.newStatus = MapGet(db.tasks, id).status }

\* C2: whatever operation on a stored task changes its status, the change
\* is matched by exactly one new TaskUpdate of that task whose oldStatus
\* and newStatus are the status before and after.
C2_StatusChangeHasOneUpdate ==
    last.op # "createTask" =>
        \A id \in StatusChanged : Cardinality(UpdatesMatching(id)) = 1

\* C3: on the in-memory backend a successful updateTaskStatus appends one
\* TaskUpdate of the task, so that getTaskUpdates of the task is one longer.
C3_MemUpdateTaskStatusAppendsUpdate ==
    (backend = "Mem" /\ Succeeded("updateTaskStatus")) =>
        /\ Len(db.taskUpdates) = Len(prev.taskUpdates) + 1
        /\ Len(Storage_getTaskUpdates(backend, db, last.a1))
             = Len(Storage_getTaskUpdates(backend, prev, last.a1)) + 1

\* The tasks other than id, as stored.
OtherTasks(d, id) ==
    LET Other(k) == k._id # id IN SelectSeq(d.tasks, Other)
\* assignTask(id, userId) is applicable: the task is stored and the file
\* backend is given a well-formed user id.
AssignTaskApplies ==
    /\ last.op = "assignTask"
    /\ Has(prev.tasks, last.a1)
    /\ backend = "File" => isValidObjectId(last.a2)

\* C4: assignTask(id, userId) on a stored task succeeds whatever status the
\* task had, in both backends; afterwards the task has status "Assigned"
\* and assignedTo = userId, every other task is as before, and no
\* TaskUpdate and no TaskEvidence was added.
C4_AssignTaskSetsAssigned ==
    AssignTaskApplies =>
        /\ ~last.threw
        /\ Has(db.tasks, last.a1)
        /\ MapGet(db.tasks, last.a1).status = "Assigned"
        /\ MapGet(db.tasks, last.a1).assignedTo = last.a2
        /\ OtherTasks(db, last.a1) = OtherTasks(prev, last.a1)
        /\ db.taskUpdates = prev.taskUpdates
        /\ db.taskEvidence = prev.taskEvidence
\* A task that was "Completed" has been assigned while another task is stored.
C4_Witness ==
    /\ AssignTaskApplies
    /\ MapGet(prev.tasks, last.a1).status = "Completed"
    /\ Len(prev.tasks) = 2
    /\ MapGet(db.tasks, last.a1).status = "Assigned"
\* The team is stored with status "Approved".
TeamApproved(d, teamId) ==
    Has(d.teams, teamId) /\ MapGet(d.teams, teamId).status = "Approved"

\* C5: createUser of the storage contract itself, given role "Field" and a
\* teamId, fails and stores no user when the team is missing, "Pending" or
\* "Rejected", and succeeds when the team is "Approved".
C5_CreateUserChecksTeam ==
    (last.op = "createUser" /\ last.s = "Field" /\ last.a2 # NoId) =>
        IF TeamApproved(prev, last.a2)
        THEN ~last.threw /\ Len(db.users) = Len(prev.users) + 1
        ELSE last.threw /\ db.users = prev.users

\* The Field users the last step attached to a team: created with a teamId
\* or given another teamId.
AttachedByLastStep ==
    { u \in Range(db.users) :
          /\ u.role = "Field"
          /\ u.teamId # NoId
          /\ \/ ~Has(prev.users, u._id)
             \/ MapGet(prev.users, u._id).teamId # u.teamId }

\* C6: through the registration route, the assign-team route and the seed
\* routine, a Field user gets a teamId only of a team that is stored with
\* status "Approved" at that moment.
C6_FieldUserTeamApprovedWhenAttached ==
    \A u \in AttachedByLastStep : TeamApproved(db, u.teamId)

WellFormedAbsent(id, m) == isValidObjectId(id) /\ ~Has(m, id)
\* The last call named, as its target or as a reference, a well-formed id
\* of an entity that was not stored.
ReferencedMissing ==
    \/ /\ last.op \in {"assignUserToTeam"}
       /\ \/ WellFormedAbsent(last.a1, prev.users)
          \/ WellFormedAbsent(last.a2, prev.teams)
    \/ /\ last.op \in {"updateTeamStatus"}
       /\ WellFormedAbsent(last.a1, prev.teams)
    \/ /\ last.op \in {"updateTaskStatus", "assignTask"}
       /\ \/ WellFormedAbsent(last.a1, prev.tasks)
          \/ WellFormedAbsent(last.a2, prev.users)
    \/ /\ last.op \in {"createTaskUpdate", "addTaskEvidence"}
       /\ WellFormedAbsent(last.a1, prev.tasks)
    \/ /\ last.op \in {"updateBoundaryStatus"}
       /\ WellFormedAbsent(last.a1, prev.boundaries)
    \/ /\ last.op \in {"assignBoundary"}
       /\ \/ WellFormedAbsent(last.a1, prev.boundaries)
          \/ WellFormedAbsent(last.a2, prev.users)

\* C7: an operation given a well-formed id of an entity that is not stored,
\* as its target or as a user, team or task it refers to, fails and leaves
\* the database as it was.
C7_MissingReferenceFails ==
    ReferencedMissing => (last.threw /\ db = prev)

\* What each lookup returns for id in the current database.
Lookups(id) ==
    << Storage_getUser(backend, db, id), Storage_getTeam(backend, db, id),
       Storage_getTask(backend, db, id), Storage_getFeature(backend, db, id),
       Storage_getBoundary(backend, db, id) >>
Collections == << db.users, db.teams, db.tasks, db.features, db.boundaries >>
LookupArgs ==
    UserIdArgs(db) \cup TeamIdArgs(db) \cup TaskIdArgs(db)
        \cup FeatureIdArgs(db) \cup BoundaryIdArgs(db)

\* C8: in both backends getUser, getTeam, getTask, getFeature and
\* getBoundary, given a malformed id or an id under which nothing is
\* stored, return nothing, do not throw and leave the database as it was.
C8_LookupOfBadIdReturnsNothing ==
    \A id \in LookupArgs : \A k \in 1..5 :
        (~isValidObjectId(id) \/ ~Has(Collections[k], id)) =>
            /\ Lookups(id)[k].ret = <<>>
            /\ ~Lookups(id)[k].threw
            /\ Lookups(id)[k].db = db

\* The features other than id, as stored.
OtherFeatures(d, id) ==
    LET Other(f) == f._id # id IN SelectSeq(d.features, Other)

\* C9: when deleteFeature(id) returns true, getFeature(id) then returns
\* nothing, getAllFeatures does not contain the feature and every other
\* feature is as before; given a malformed id, an id never stored or an id
\* already deleted, it returns false and changes nothing.
C9_DeleteFeature ==
    last.op = "deleteFeature" =>
        /\ ~last.threw
        /\ last.ret = <<Boolean(TRUE)>> =>
              /\ Storage_getFeature(backend, db, last.a1).ret = <<>>
              /\ last.a1 \notin Keys(Storage_getAllFeatures(backend, db))
              /\ OtherFeatures(db, last.a1) = OtherFeatures(prev, last.a1)
        /\ (~isValidObjectId(last.a1) \/ ~Has(prev.features, last.a1)) =>
              /\ last.ret = <<Boolean(FALSE)>>
              /\ db = prev

\* What the lookup of the created entity's kind returns for id.
LookupCreated(op, id) ==
    CASE op = "createUser" -> Storage_getUser(backend, db, id)
      [] op = "createTeam" -> Storage_getTeam(backend, db, id)
      [] op = "createTask" -> Storage_getTask(backend, db, id)
      [] op = "createFeature" -> Storage_getFeature(backend, db, id)
      [] op = "createBoundary" -> Storage_getBoundary(backend, db, id)
Creates ==
    {"createUser", "createTeam", "createTask", "createFeature", "createBoundary"}

\* C10: in both backends, right after a successful create of a user, team,
\* task, feature or boundary, the lookup by the returned _id returns an
\* entity equal to the one create returned, and its updatedAt is not
\* before its createdAt.
C10_CreateThenGet ==
    (last.op \in Creates /\ ~last.threw) =>
        /\ Len(last.ret) = 1
        /\ LookupCreated(last.op, last.ret[1]._id).ret = last.ret
        /\ ~LookupCreated(last.op, last.ret[1]._id).threw
        /\ last.ret[1].updatedAt >= last.ret[1].createdAt
\* A second task has been created on the in-memory backend.
C10_Witness ==
    /\ last.op = "createTask"
    /\ ~last.threw
    /\ backend = "Mem"
    /\ Len(db.tasks) = 2
    /\ Storage_getTask(backend, db, last.ret[1]._id).ret = last.ret

\* The lower-case hexadecimal digits
LowerHexChars == { HexDigit[i] : i \in 1..16 }
IsLowerHex24(str) == Len(str) = 24 /\ \A i \in 1..24 : str[i] \in LowerHexChars
\* The operations that store a new record, and the collection they store it in.
Creating ==
    Creates \cup {"createTaskUpdate", "addTaskEvidence"}
CollectionOf(op, d) ==
    CASE op = "createUser" -> d.users
      [] op = "createTeam" -> d.teams
      [] op = "createTask" -> d.tasks
      [] op = "createFeature" -> d.features
      [] op = "createBoundary" -> d.boundaries
      [] op = "createTaskUpdate" -> d.taskUpdates
      [] op = "addTaskEvidence" -> d.taskEvidence

\* C11: the id a create operation of either backend assigns is a string of
\* 24 lower-case hexadecimal digits.
C11_CreatedIdIsHex24 ==
    (last.op \in Creating /\ ~last.threw) =>
        IsLowerHex24(IdString(last.ret[1]._id))

\* C12: a create never reuses an id of its collection: afterwards the
\* collection holds exactly one more record than before, and every record
\* stored before is still retrievable with the fields it had.
C12_CreateNeverReusesId ==
    (last.op \in Creating /\ ~last.threw) =>
        /\ Len(CollectionOf(last.op, db)) = Len(CollectionOf(last.op, prev)) + 1
        /\ \A e \in Range(CollectionOf(last.op, prev)) :
               Lookup(CollectionOf(last.op, db), e._id) = <<e>>

\* The records the last call created: every call has a clock tick of its own.
CreatedByLastCall(coll) == { e \in Range(coll) : e.createdAt = now - 1 }
\* The ids the last call generated were not in use in their collection.
FreshIds ==
    /\ \A e \in CreatedByLastCall(db.users) : ~Has(prev.users, e._id)
    /\ \A e \in CreatedByLastCall(db.teams) : ~Has(prev.teams, e._id)
    /\ \A e \in CreatedByLastCall(db.tasks) : ~Has(prev.tasks, e._id)
    /\ \A e \in CreatedByLastCall(db.features) : ~Has(prev.features, e._id)
    /\ \A e \in CreatedByLastCall(db.boundaries) : ~Has(prev.boundaries, e._id)
    /\ \A e \in CreatedByLastCall(db.taskUpdates) : ~Has(prev.taskUpdates, e._id)
    /\ \A e \in CreatedByLastCall(db.taskEvidence) : ~Has(prev.taskEvidence, e._id)

\* C13: provided the generated ids are fresh, every TaskUpdate and
\* TaskEvidence stored before a call is stored after it with the same
\* fields, and no user, team, task or boundary leaves its collection:
\* only a feature can be removed.
C13_AppendOnly ==
    FreshIds =>
        /\ Range(prev.taskUpdates) \subseteq Range(db.taskUpdates)
        /\ Range(prev.taskEvidence) \subseteq Range(db.taskEvidence)
        /\ Keys(prev.users) \subseteq Keys(db.users)
        /\ Keys(prev.teams) \subseteq Keys(db.teams)
        /\ Keys(prev.tasks) \subseteq Keys(db.tasks)
        /\ Keys(prev.boundaries) \subseteq Keys(db.boundaries)
\* A second status change of a task has added its TaskUpdate under a fresh
\* id, next to the first one.
C13_Witness ==
    /\ Succeeded("updateTaskStatus")
    /\ FreshIds
    /\ Len(prev.taskUpdates) = 1
    /\ Len(db.taskUpdates) = 2
    /\ prev.taskUpdates[1] = db.taskUpdates[1]

\* C15: the startup falls back from the database to the files and from the
\* files to memory: when the construction of FileStorage throws, the
\* startup goes on with MemStorage as the active backend and does not
\* terminate.
C15_FallsBackToMemory ==
    (last.op = "initializeStorage" /\ last.threw) =>
        /\ phase \in {"seeding", "serving"}
        /\ backend = "Mem"

\* The values of USE_MONGODB that read as "disabled"
Disabling == {"false", "FALSE", "0"}
\* C16: with USE_MONGODB set to a disabling value the startup does not
\* attempt the database setup and takes the file backend; with the flag
\* absent it attempts the database first.
C16_FlagDisablesDatabase ==
    (last.op = "initializeStorage") =>
        /\ (last.s \in Disabling) => ~last.ret[1].attempted
        /\ (last.s \in Disabling /\ ~last.threw) => backend = "File"
        /\ (last.s = Undefined) => last.ret[1].attempted

\* C17: the backend active when the server starts listening is the one the
\* startup chose, not the default MemStorage, and it is not replaced while
\* the server is listening.
C17_BackendFixedOnceListening ==
    [][ /\ (phase' = "serving") => (backend' # "Mem")
        /\ (phase \in {"seeding", "serving"}) => (backend' = backend)
        /\ (phase = "serving") => (phase' = "serving") ]_vars
\* The server has answered a request on the file backend the startup chose.
C17_Witness ==
    /\ phase = "serving"
    /\ backend = "File"
    /\ nops > 0
    /\ last.code # 0

\* C18: in the file backend the status write and the audit record of
\* updateTaskStatus are one operation: when the write of the task updates'
\* file fails, the call fails and the task has the status it had before the
\* call, in memory and in the tasks' file.
C18_StatusChangeFailsWithItsAuditRecord ==
    (last.op = "updateTaskStatus" /\ "taskUpdates" \in last.failed) =>
        /\ last.threw
        /\ MapGet(db.tasks, last.a1).status = MapGet(prev.tasks, last.a1).status
        /\ \A rec \in Range(disk.files["tasks"].records) :
               (rec._id = last.a1) =>
                   rec.status = MapGet(prev.tasks, last.a1).status

\* No write of a file has failed and the process is alive.
NoWriteFailed == disk.faults = 0 /\ phase # "crashed"
\* The file of collection c holds exactly the records of the map: a file
\* never written stands for no record.
InSync(c) ==
    IF disk.files[c].state = "absent" THEN db[c] = <<>>
    ELSE /\ disk.files[c].state = "complete"
         /\ disk.files[c].records = stringifyAll(db[c])
C20_CrashLeavesCompleteSnapshot ==
    (phase = "crashed") =>
        \A c \in Files : disk.files[c].state \in {"absent", "complete"}

\* C14: the entity a storage operation returned is a copy: whatever the
\* later operations on that entity, the caller that holds it reads the
\* value it was given.
C14_ReturnedValueIsACopy ==
    (held.coll # "none") => (held.cur = held.orig)

\* The spellings under which clients look a stored username up
CaseVariants(username) ==
    CASE username = "alice" -> {"alice", "Alice"}
      [] username = "bob" -> {"bob", "Bob"}
      [] OTHER -> {username}
\* C23: usernames are unique ignoring case: no two stored users have
\* usernames that are equal case-insensitively, and getUserByUsername finds
\* a stored user by any case variant of its username.
C23_UsernamesUniqueIgnoringCase ==
    /\ \A i, j \in 1..Len(db.users) :
           (i # j) =>
               toLowerCase(db.users[i].username) # toLowerCase(db.users[j].username)
    /\ \A u \in Range(db.users) : \A v \in CaseVariants(u.username) :
           Storage_getUserByUsername(backend, db, v) # <<>>

\* C24: every stored user's password is a hash that bcrypt.compare matches
\* with the account's password, for the users registered through
\* POST /api/users and for the accounts the seed routine creates.
C24_StoredPasswordIsHash ==
    (phase = "serving") =>
        \A u \in Range(db.users) : \E pw \in Passwords : Compare(pw, u.password)

\* C22: every task's status is one of the nine task statuses: an
\* updateTaskStatus call that carries another value is rejected and leaves
\* the task and the task updates as they were.
C22_TaskStatusIsOneOfNine ==
    /\ Succeeded("updateTaskStatus") =>
           MapGet(db.tasks, last.a1).status \in TaskStatuses
    /\ (last.op = "updateTaskStatus" /\ last.s \notin TaskStatuses) =>
           /\ last.threw
           /\ db.tasks = prev.tasks
           /\ db.taskUpdates = prev.taskUpdates

\* The routes of the tasks group that hand a route parameter to a storage
\* operation that throws when no entity has that id
TargetRoutes == {"PUT /api/tasks/:id/status"}
\* C25: a request whose storage operation targets a well-formed id of no
\* stored entity is answered 404, not a server error.
C25_MissingTargetIs404 ==
    (/\ last.op \in TargetRoutes
     /\ last.code \notin {400, 401, 403}
     /\ isValidObjectId(last.a2)
     /\ ~Has(prev.tasks, last.a2)) =>
        last.code = 404

\* The last request is a bulk status request, of an authenticated client
\* if the route is registered, whose id list holds a malformed id.
BulkWithMalformedId ==
    /\ last.op = "PATCH /api/tasks/bulk-status"
    /\ last.code # 401
    /\ InvalidIds(last.ids) # <<>>
C27_BackendsEnforceSameChecks ==
    /\ \A u \in Range(db.users) : \A v \in CaseVariants(u.username) :
           (FileStorage_getUserByUsername(db, v) = <<>>)
               <=> (MemStorage_getUserByUsername(db, v) = <<>>)
    /\ (backend = "File" /\ last.op = "assignUserToTeam") =>
           last.threw
               = MemStorage_assignUserToTeam(prev, now - 1, last.a1, last.a2).threw

\* The collections whose entities carry createdAt and updatedAt
Stamped == {"users", "teams", "tasks", "features", "boundaries"}
\* C28: an operation that is not a create leaves the id and the createdAt
\* of every entity it keeps as they were and sets the updatedAt of every
\* entity it changes to the time of the call; updatedAt is never before
\* createdAt.
C28_CreatedAtFixedUpdatedAtSet ==
    \A c \in Stamped :
        /\ \A e \in Range(db[c]) : e.updatedAt >= e.createdAt
        /\ (last.op \notin Creating /\ ~last.threw) =>
               \A id \in Keys(prev[c]) \cap Keys(db[c]) :
                   LET old == MapGet(prev[c], id)
                       new == MapGet(db[c], id)
                   IN  /\ new._id = old._id
                       /\ new.createdAt = old.createdAt
                       /\ (new # old) => new.updatedAt = now - 1

\* A Date with clock reading t, as a value to compare a loaded field with
DateValue(t) == [date |-> t]
\* The loaded entity new has, under every key that old defines, the value
\* old has: a Date where old has a Date.
SameEntity(old, new) ==
    \A f \in DOMAIN old :
        ~IsUndefined(f, old[f]) =>
            /\ f \in DOMAIN new
            /\ new[f] = IF f \in DateFields THEN DateValue(old[f]) ELSE old[f]
\* C21: after a restart of the file backend every collection holds the
\* entities it held before, under the same ids and with equal fields,
\* timestamps being dates.
C21_RestartRoundTrip ==
    (last.op = "restart") =>
        \A c \in Files :
            /\ Keys(db[c]) = Keys(prev[c])
            /\ \A i \in 1..Len(prev[c]) :
                   /\ i <= Len(db[c])
                   /\ SameEntity(prev[c][i], db[c][i])

\* The task update that the suspended or just started status change of
\* task id to status s has to have: the task, the user, the new status and,
\* as old status, the status old.
Matching(d, id, userId, s, old) ==
    { u \in Range(d.taskUpdates) :
          /\ u.taskId = id
          /\ u.userId = userId
          /\ u.newStatus = s
          /\ u.oldStatus = old }
\* The run of updateTaskStatus up to its suspension alone: when the call is
\* suspended it has written the status and appended the task update whose
\* oldStatus is the status it overwrote.
StatusAndAuditInOneRun ==
    (last.op = "updateTaskStatus: call" /\ ~last.threw) =>
        /\ pending.active
        /\ MapGet(db.tasks, last.a1).status = last.s
        /\ Matching(db, last.a1, last.a2, last.s,
                    MapGet(prev.tasks, last.a1).status) # {}

\* C30: the file backend's updateTaskStatus writes the status and appends
\* the task update in one run, so that every operation that runs while the
\* call is suspended, the task having the status it wrote, finds its task
\* update stored.
C30_SuspendedChangeHasItsUpdate ==
    (/\ pending.active
     /\ Has(db.tasks, pending.id)
     /\ MapGet(db.tasks, pending.id).status = pending.s) =>
        \E u \in Range(db.taskUpdates) :
            /\ u.taskId = pending.id
            /\ u.userId = pending.userId
            /\ u.newStatus = pending.s

\* C33: a call of the file backend that throws has changed none of the
\* seven collections and has written no file.
C33_ThrowChangesNothing ==
    (backend = "File" /\ last.threw) =>
        /\ \A c \in Files : db[c] = prev[c]
        /\ last.wrote = {}
        /\ last.failed = {}
\* A status change, a team assignment or an audit append has thrown on a
\* store that holds a task or a user.
C33_Witness ==
    /\ backend = "File"
    /\ last.threw
    /\ last.op \in {"updateTaskStatus", "assignUserToTeam", "createTaskUpdate"}
    /\ prev.tasks # <<>> \/ prev.users # <<>>

\* C34: the seed routine, run on an empty backend, creates the supervisor,
\* the teams and the demo field user, and run again on the store it left it
\* creates no further user and no further team.
C34_SeedIsIdempotent ==
    (last.op = "addInitialData" /\ prev = EmptyDb) =>
        /\ Storage_getUserByUsername(backend, db, "supervisor12") # <<>>
        /\ db.teams # <<>>
        /\ Storage_getUserByUsername(backend, db, "field_user_demo") # <<>>
        /\ \A gs \in SeedDraws :
               LET again == addInitialData(backend, db, now, gs)
               IN  /\ Len(again.users) = Len(db.users)
                   /\ Len(again.teams) = Len(db.teams)

\* C35: no record of a response body has a password field.
C35_NoPasswordInResponse ==
    (last.code # 0) => \A r \in Range(last.ret) : "password" \notin DOMAIN r

\* The last request came from the session of a stored user who is not a
\* supervisor.
ByOrdinaryUser ==
    /\ last.code # 0
    /\ last.a1 # NoId
    /\ ReqUser(prev, last.a1) # <<>>
    /\ ReqUser(prev, last.a1)[1].role # "Supervisor"
FeatureIdRoutes == {"PUT /api/features/:id", "DELETE /api/features/:id"}
\* C36, the two routes alone: a PUT or DELETE of a feature by a user who is
\* neither a supervisor nor its creator is answered 403, one without a
\* session 401, and both leave the features as they were.
FeatureRoutesRefuseOthers ==
    /\ (last.op \in FeatureIdRoutes /\ last.a1 = NoId) =>
           (last.code = 401 /\ db.features = prev.features)
    /\ (/\ last.op \in FeatureIdRoutes
        /\ ByOrdinaryUser
        /\ Has(prev.features, last.a2)
        /\ MapGet(prev.features, last.a2).createdBy # last.a1) =>
           (last.code = 403 /\ db.features = prev.features)
\* C36: the same, and no request of a user who is not a supervisor changes
\* or removes a feature that another user created.
C36_OnlyCreatorOrSupervisorChangesFeature ==
    /\ FeatureRoutesRefuseOthers
    /\ ByOrdinaryUser =>
           \A f \in Range(prev.features) :
               (f.createdBy # last.a1) =>
                   /\ Has(db.features, f._id)
                   /\ MapGet(db.features, f._id) = f

\* C37: every startup run ends the process or comes to have its routes
\* registered and its server listening.
C37_StartupEventuallyListens ==
    <>(phase \in {"serving", "external", "exited"})

\* The list that a list operation of the store d sorts: all tasks, or the
\* records of the task
Listing(d, op, taskId) ==
    LET OfTask(u) == u.taskId = taskId
    IN  CASE op = "getAllTasks" -> d.tasks
          [] op = "getTaskUpdates" -> SelectSeq(d.taskUpdates, OfTask)
          [] op = "getTaskEvidence" -> SelectSeq(d.taskEvidence, OfTask)
Ids(seq) == [ i \in 1..Len(seq) |-> seq[i]._id ]

\* C38: after a restart of the file backend getAllTasks, getTaskUpdates and
\* getTaskEvidence return, without throwing, the records that were stored
\* before the restart, newest first.
C38_ListsSurviveRestart ==
    (last.op \in {"getAllTasks", "getTaskUpdates", "getTaskEvidence"}
       /\ isValidObjectId(IF last.op = "getAllTasks" THEN AbsentId ELSE last.a1)) =>
        /\ ~last.threw
        /\ Ids(last.ret) = Ids(SortNewestFirst(Listing(prev, last.op, last.a1)))

\* The ids of the records in the file of collection c
StoredIds(dk, c) == { dk.files[c].records[i]._id : i \in 1..Len(dk.files[c].records) }

\* C39: the records of a file that existed when FileStorage was constructed
\* are not lost: no operation of the new process writes a file without a
\* record that the file held.
C39_ReloadKeepsFileRecords ==
    [][ phase = "restarted" =>
            \A c \in Files : StoredIds(disk, c) \subseteq StoredIds(disk', c) ]_vars

\* The feature f has the values that featureUpdate gives to name and status.
Carries(f, featureUpdate) ==
    /\ featureUpdate.name # Undefined => f.name = featureUpdate.name
    /\ featureUpdate.feaStatus # Undefined => f.feaStatus = featureUpdate.feaStatus
\* The two updates set different fields.
Disjoint(u1, u2) ==
    /\ u1.name = Undefined \/ u2.name = Undefined
    /\ u1.feaStatus = Undefined \/ u2.feaStatus = Undefined
    /\ u1.createdAt = NoDate /\ u2.createdAt = NoDate
\* Calls i and j of pending were both made before either completed, and both
\* have completed without throwing.
Overlapped(i, j) ==
    /\ i < j
    /\ pending[i].completed # NoDate /\ pending[j].completed # NoDate
    /\ ~pending[i].threw /\ ~pending[j].threw
    /\ pending[j].called < pending[i].completed

\* C31: two updateFeature calls on one feature that set different fields and
\* are both made before either completes leave a feature with both changes.
C31_NoLostFeatureUpdate ==
    \A i, j \in DOMAIN pending :
        (/\ Overlapped(i, j)
         /\ pending[i].id = pending[j].id
         /\ Disjoint(pending[i].featureUpdate, pending[j].featureUpdate)) =>
            /\ Has(db.features, pending[i].id)
            /\ Carries(MapGet(db.features, pending[i].id), pending[i].featureUpdate)
            /\ Carries(MapGet(db.features, pending[i].id), pending[j].featureUpdate)

\* C32: POST /api/users stores a field user with a team only if the team is
\* Approved when the user is stored.
C32_FieldUserJoinsApprovedTeam ==
    (last.op = "POST /api/users" /\ last.code = 201 /\ last.s = "Field"
       /\ last.a2 # NoId) =>
        /\ Storage_getTeam(backend, db, last.a2).ret # <<>>
        /\ Storage_getTeam(backend, db, last.a2).ret[1].status = "Approved"

====
